---- MODULE Spec2Model ----
(***************************************************************************)
(* Commission statement ingestion and override engine of trackyoursheets.  *)
(*                                                                         *)
(* Strings are sequences of one-character strings so that strip() and      *)
(* lower() are computed, not assumed.  Python's None for a string is the   *)
(* one-element sequence NoneS.  A Decimal is [null, nan, n, e] standing    *)
(* for n * 10^-e (canonical: no trailing zero digits); None is DNull and   *)
(* Decimal("NaN") is DNaN.  A date is [ok, y, m, d].                       *)
(***************************************************************************)
EXTENDS Integers, Sequences, FiniteSets, TLC

(* ------------------------------ strings ------------------------------- *)

NoneS == <<"<None>">>

UpperChars == <<"A","B","C","D","E","F","G","H","I","J","K","L","M",
                "N","O","P","Q","R","S","T","U","V","W","X","Y","Z">>
LowerChars == <<"a","b","c","d","e","f","g","h","i","j","k","l","m",
                "n","o","p","q","r","s","t","u","v","w","x","y","z">>

LowerChar(c) ==
    IF \E i \in 1..26 : UpperChars[i] = c
    THEN LowerChars[CHOOSE i \in 1..26 : UpperChars[i] = c]
    ELSE c

\* str.lower()
Lower(s) == [i \in 1..Len(s) |-> LowerChar(s[i])]

IsSpace(c) == c \in {" ", "\t"}

RECURSIVE LStrip(_)
LStrip(s) == IF s # <<>> /\ IsSpace(Head(s)) THEN LStrip(Tail(s)) ELSE s

RECURSIVE RStrip(_)
RStrip(s) ==
    IF s # <<>> /\ IsSpace(s[Len(s)]) THEN RStrip(SubSeq(s, 1, Len(s) - 1)) ELSE s

\* str.strip()
Strip(s) == RStrip(LStrip(s))

\* Python truthiness of an optional string: None and "" are falsy
Truthy(s) == s # NoneS /\ s # <<>>

\* a or b, on optional strings
OrS(a, b) == IF Truthy(a) THEN a ELSE b

Range(f) == {f[i] : i \in DOMAIN f}

\* F applied to the value of v, with v evaluated once (a local variable)
Once(v, F(_)) == CHOOSE r \in {F(w) : w \in {v}} : TRUE

(* ------------------------------ decimals ------------------------------ *)

DNull == [null |-> TRUE, nan |-> FALSE, n |-> 0, e |-> 0]

\* Decimal("NaN")
DNaN == [null |-> FALSE, nan |-> TRUE, n |-> 0, e |-> 0]

RECURSIVE DecNorm(_, _)
DecNorm(n, e) ==
    IF e > 0 /\ n % 10 = 0 THEN DecNorm(n \div 10, e - 1)
    ELSE [null |-> FALSE, nan |-> FALSE, n |-> n, e |-> e]

Dec(n) == DecNorm(n, 0)

RECURSIVE Pow10(_)
Pow10(k) == IF k = 0 THEN 1 ELSE 10 * Pow10(k - 1)

\* Decimal * Decimal (exact; both operands not None; a NaN operand gives NaN)
DecMul(a, b) == IF a.nan \/ b.nan THEN DNaN ELSE DecNorm(a.n * b.n, a.e + b.e)

\* Decimal / Decimal("100")
DecDiv100(a) == IF a.nan THEN DNaN ELSE DecNorm(a.n, a.e + 2)

\* Decimal + Decimal
DecAdd(a, b) ==
    LET e == IF a.e > b.e THEN a.e ELSE b.e
    IN  IF a.nan \/ b.nan THEN DNaN
        ELSE DecNorm(a.n * Pow10(e - a.e) + b.n * Pow10(e - b.e), e)

\* Python truthiness of an optional Decimal: None and 0 are falsy (NaN is truthy)
DecTruthy(d) == ~d.null /\ (d.nan \/ d.n # 0)

\* a or b, on optional Decimals
OrD(a, b) == IF DecTruthy(a) THEN a ELSE b

\* d > 1, for a number d
DecGtOne(d) == ~d.null /\ ~d.nan /\ d.n > Pow10(d.e)

\* d > 1 raises decimal.InvalidOperation: an ordering comparison with NaN
DecGtRaises(d) == ~d.null /\ d.nan

Digits == <<"0","1","2","3","4","5","6","7","8","9">>

IsDigit(c) == \E i \in 1..10 : Digits[i] = c

DigitVal(c) == (CHOOSE i \in 1..10 : Digits[i] = c) - 1

RECURSIVE DigitsVal(_)
DigitsVal(s) ==
    IF s = <<>> THEN 0 ELSE 10 * DigitsVal(SubSeq(s, 1, Len(s) - 1)) + DigitVal(s[Len(s)])

\* the numeral grammar  [sign] digits [. digits] | [sign] . digits
\* (exponent and Infinity spellings are not among the modelled inputs)
IsNumeral(s) ==
    LET body == IF s # <<>> /\ Head(s) \in {"-", "+"} THEN Tail(s) ELSE s
        dots == {i \in 1..Len(body) : body[i] = "."}
    IN  /\ Cardinality(dots) <= 1
        /\ \A i \in 1..Len(body) : IsDigit(body[i]) \/ body[i] = "."
        /\ \E i \in 1..Len(body) : IsDigit(body[i])

NumeralVal(s) ==
    LET neg  == s # <<>> /\ Head(s) = "-"
        body == IF s # <<>> /\ Head(s) \in {"-", "+"} THEN Tail(s) ELSE s
        ds   == SelectSeq(body, IsDigit)
        dot  == IF \E i \in 1..Len(body) : body[i] = "."
                THEN CHOOSE i \in 1..Len(body) : body[i] = "."
                ELSE Len(body) + 1
        frac == Len(body) + 1 - dot - (IF dot <= Len(body) THEN 1 ELSE 0)
        mag  == DigitsVal(ds)
    IN  DecNorm(IF neg THEN 0 - mag ELSE mag, IF frac > 0 THEN frac ELSE 0)

\* the spelling [sign] nan, in any case, which Decimal() and float() both read
\* as a NaN
IsNaNText(s) ==
    LET body == IF s # <<>> /\ Head(s) \in {"-", "+"} THEN Tail(s) ELSE s
    IN  Lower(body) = <<"n","a","n">>

\* Decimal(value): ok = FALSE stands for InvalidOperation (bad text) or
\* TypeError (None); surrounding whitespace is accepted by Decimal
ParseDecimal(s) ==
    IF s # NoneS /\ IsNumeral(Strip(s))
    THEN [ok |-> TRUE, val |-> NumeralVal(Strip(s))]
    ELSE IF s # NoneS /\ IsNaNText(Strip(s))
    THEN [ok |-> TRUE, val |-> DNaN]
    ELSE [ok |-> FALSE, val |-> DNull]

\* imports._decimal_or_none
DecimalOrNone(value) ==
    IF value \in {NoneS, <<>>, <<" ">>} THEN DNull ELSE ParseDecimal(value).val

\* imports._safe_str
SafeStr(value) == IF value = NoneS THEN <<>> ELSE Lower(Strip(value))

(* --------------------- column names and literals --------------------- *)

K_carrier == <<"c","a","r","r","i","e","r">>
K_premium == <<"p","r","e","m","i","u","m">>
K_Premium == <<"P","r","e","m","i","u","m">>
K_Written_Premium == <<"W","r","i","t","t","e","n"," ","P","r","e","m","i","u","m">>
K_Total_Premium == <<"T","o","t","a","l"," ","P","r","e","m","i","u","m">>
K_commission == <<"c","o","m","m","i","s","s","i","o","n">>
K_Commission == <<"C","o","m","m","i","s","s","i","o","n">>
K_Commission_Amount == <<"C","o","m","m","i","s","s","i","o","n"," ","A","m","o","u","n","t">>
K_Commission_Total == <<"C","o","m","m","i","s","s","i","o","n"," ","T","o","t","a","l">>
K_commission_amount == <<"c","o","m","m","i","s","s","i","o","n","_","a","m","o","u","n","t">>
K_commission_total == <<"c","o","m","m","i","s","s","i","o","n"," ","t","o","t","a","l">>
K_agent_commission == <<"a","g","e","n","t","_","c","o","m","m","i","s","s","i","o","n">>
K_split_amount == <<"s","p","l","i","t","_","a","m","o","u","n","t">>
K_commission_rate == <<"c","o","m","m","i","s","s","i","o","n","_","r","a","t","e">>
K_rate == <<"r","a","t","e">>
K_producer == <<"p","r","o","d","u","c","e","r">>
K_producer_name == <<"p","r","o","d","u","c","e","r","_","n","a","m","e">>
K_producer_full_name == <<"p","r","o","d","u","c","e","r"," ","f","u","l","l"," ","n","a","m","e">>
K_agent == <<"a","g","e","n","t">>
K_agent_name == <<"a","g","e","n","t","_","n","a","m","e">>
K_writer == <<"w","r","i","t","e","r">>
K_producer_email == <<"p","r","o","d","u","c","e","r","_","e","m","a","i","l">>
K_agent_email == <<"a","g","e","n","t","_","e","m","a","i","l">>
K_split_pct == <<"s","p","l","i","t","_","p","c","t">>
K_split == <<"s","p","l","i","t">>
K_split_Pct == <<"s","p","l","i","t"," ","%">>
K_producer_split == <<"p","r","o","d","u","c","e","r","_","s","p","l","i","t">>
K_agent_split == <<"a","g","e","n","t","_","s","p","l","i","t">>
K_agent_amount == <<"a","g","e","n","t","_","a","m","o","u","n","t">>
K_producer_amount == <<"p","r","o","d","u","c","e","r","_","a","m","o","u","n","t">>
K_category == <<"c","a","t","e","g","o","r","y">>
K_commission_type == <<"c","o","m","m","i","s","s","i","o","n","_","t","y","p","e">>
K_type == <<"t","y","p","e">>
K_revenue_type == <<"r","e","v","e","n","u","e","_","t","y","p","e">>
K_line_type == <<"l","i","n","e","_","t","y","p","e">>
K_Unspecified == <<"U","n","s","p","e","c","i","f","i","e","d">>
K_raw == <<"r","a","w">>
K_Policy == <<"P","o","l","i","c","y">>
K_policy_number == <<"p","o","l","i","c","y","_","n","u","m","b","e","r">>
K_Policy_Number == <<"P","o","l","i","c","y"," ","N","u","m","b","e","r">>
K_Policy_No == <<"P","o","l","i","c","y"," ","#">>
K_customer == <<"c","u","s","t","o","m","e","r">>
K_Customer_Name == <<"C","u","s","t","o","m","e","r"," ","N","a","m","e">>
K_Insured == <<"I","n","s","u","r","e","d">>
K_Client == <<"C","l","i","e","n","t">>
K_region == <<"r","e","g","i","o","n">>
K_other == <<"o","t","h","e","r">>

(* --------------- organisation, users, workspaces, roster -------------- *)

\* rows of the users table: role, organisation and the producer record linked
\* to the user (user.producer, 0 for none)
Users ==
    [u \in {1, 2, 3, 4, 5} |->
        CASE u = 1 -> [role |-> "owner", org_id |-> 1, producer_id |-> 0]
          [] u = 2 -> [role |-> "agent", org_id |-> 1, producer_id |-> 0]
          [] u = 3 -> [role |-> "agent", org_id |-> 1, producer_id |-> 0]
          [] u = 4 -> [role |-> "producer", org_id |-> 1, producer_id |-> 2]
          [] u = 5 -> [role |-> "owner", org_id |-> 2, producer_id |-> 0]]

\* rows of the workspaces table, in name order
Workspaces ==
    << [id |-> 1, org_id |-> 1, agent_id |-> 2],
       [id |-> 2, org_id |-> 1, agent_id |-> 0],
       [id |-> 3, org_id |-> 2, agent_id |-> 0] >>

\* workspace_memberships rows (user, workspace)
Memberships == {<<2, 1>>}

\* rows of the producers table, in display_name order
Producers ==
    << [id |-> 1, org_id |-> 1, workspace_id |-> 1, agent_id |-> 2,
        display_name |-> <<"A","n","n">>, email |-> <<"a","@","x">>, default_split |-> Dec(50)],
       [id |-> 2, org_id |-> 1, workspace_id |-> 2, agent_id |-> 0,
        display_name |-> <<"B","o","b">>, email |-> <<"b","@","x">>, default_split |-> Dec(100)],
       [id |-> 3, org_id |-> 1, workspace_id |-> 2, agent_id |-> 0,
        display_name |-> <<"C","y">>, email |-> <<"c","@","x">>, default_split |-> Dec(80)] >>

\* user.producer (the empty sequence for none)
ProducerOf(u) == SelectSeq(Producers, LAMBDA p : p.id = Users[u].producer_id)

\* workspaces._membership_workspace_ids
MembershipWorkspaceIds(u) == {m[2] : m \in {mm \in Memberships : mm[1] = u}}

\* workspaces.get_accessible_workspaces (owner/admin: every workspace of the
\* organisation; agent: managed workspaces, then membership workspaces;
\* producer: the workspace of the own producer record, then membership
\* workspaces)
GetAccessibleWorkspaces(u) ==
    LET base == SelectSeq(Workspaces, LAMBDA w : w.org_id = Users[u].org_id)
        managed == SelectSeq(base, LAMBDA w : w.agent_id = u)
        additional == SelectSeq(base, LAMBDA w : w.id \in MembershipWorkspaceIds(u))
        own == SelectSeq(Workspaces,
                         LAMBDA w : \E i \in 1..Len(ProducerOf(u)) :
                                        ProducerOf(u)[i].workspace_id = w.id)
    IN  IF Users[u].role \in {"owner", "admin"} THEN base
        ELSE IF Users[u].role = "agent"
             THEN managed \o SelectSeq(additional, LAMBDA w : w \notin Range(managed))
        ELSE IF Users[u].role = "producer" /\ ProducerOf(u) # <<>>
             THEN own \o SelectSeq(additional, LAMBDA w : w \notin Range(own))
             ELSE additional

\* workspaces.get_accessible_workspace_ids
GetAccessibleWorkspaceIds(u) == {w.id : w \in Range(GetAccessibleWorkspaces(u))}

\* workspaces.find_workspace_for_upload; 0 stands for None
FindWorkspaceForUpload(u, workspace_id) ==
    LET accessible == GetAccessibleWorkspaces(u)
        ids == {w.id : w \in Range(accessible)}
    IN  IF Users[u].role \in {"owner", "admin"}
        THEN IF workspace_id = 0
             THEN (IF Len(accessible) = 1 THEN accessible[1].id ELSE 0)
             ELSE (IF workspace_id \in ids THEN workspace_id ELSE 0)
        ELSE IF workspace_id # 0 /\ workspace_id \in ids THEN workspace_id
             ELSE IF accessible # <<>> THEN accessible[1].id ELSE 0

\* workspaces.get_accessible_producers
GetAccessibleProducers(u) ==
    LET query == SelectSeq(Producers, LAMBDA p : p.org_id = Users[u].org_id)
        ws == GetAccessibleWorkspaceIds(u)
    IN  IF Users[u].role \in {"owner", "admin"} THEN query
        ELSE IF Users[u].role = "agent"
             THEN (IF ws # {} THEN SelectSeq(query, LAMBDA p : p.workspace_id \in ws)
                   ELSE SelectSeq(query, LAMBDA p : p.agent_id = u))
        ELSE IF Users[u].role = "producer" /\ ProducerOf(u) # <<>> THEN ProducerOf(u)
        ELSE IF ws # {} THEN SelectSeq(query, LAMBDA p : p.workspace_id \in ws)
        ELSE <<>>

(* ------------------------- statement ingestion ------------------------ *)

\* dict.get(key) on a row; a missing key gives None
Get(row, key) == IF key \in DOMAIN row THEN row[key] ELSE NoneS

\* first truthy value among row.get(k) for k in keys, else None
RECURSIVE FirstTruthy(_, _)
FirstTruthy(row, keys) ==
    IF keys = <<>> THEN NoneS
    ELSE IF Truthy(Get(row, Head(keys))) THEN Get(row, Head(keys))
    ELSE FirstTruthy(row, Tail(keys))

\* upload: the header entry whose trimmed, lower-cased text is "carrier"
\* (the first such entry), or None
CarrierField(fieldnames) ==
    LET hits == {i \in 1..Len(fieldnames) :
                    fieldnames[i] # <<>> /\ Lower(Strip(fieldnames[i])) = K_carrier}
    IN  IF hits = {} THEN NoneS
        ELSE fieldnames[CHOOSE i \in hits : \A j \in hits : i <= j]

\* upload: csv.DictReader rows (a repeated header name keeps its last value),
\* each string value stripped
ReadRows(file) ==
    [i \in 1..Len(file.rows) |->
        [k \in Range(file.header) |->
            Strip(file.rows[i][CHOOSE j \in 1..Len(file.header) :
                /\ file.header[j] = k
                /\ \A m \in 1..Len(file.header) : file.header[m] = k => m <= j])]]

\* _group_rows_by_carrier: the grouping key of one row
CarrierKey(row, carrier_field) ==
    LET carrier_name == Strip(OrS(Get(row, carrier_field), K_Unspecified))
    IN  OrS(carrier_name, K_Unspecified)

\* the keys with each new one put in front of those already met
RECURSIVE GroupKeysNewestFirst(_, _)
GroupKeysNewestFirst(rows, carrier_field) ==
    IF rows = <<>> THEN <<>>
    ELSE LET front == GroupKeysNewestFirst(SubSeq(rows, 1, Len(rows) - 1), carrier_field)
             key == CarrierKey(rows[Len(rows)], carrier_field)
         IN  IF key \in Range(front) THEN front ELSE <<key>> \o front

\* _group_rows_by_carrier: the keys of the dict, in insertion order
RECURSIVE GroupKeys(_, _)
GroupKeys(rows, carrier_field) ==
    IF rows = <<>> THEN <<>>
    ELSE LET front == GroupKeys(SubSeq(rows, 1, Len(rows) - 1), carrier_field)
             key == CarrierKey(rows[Len(rows)], carrier_field)
         IN  IF key \in Range(front) THEN front ELSE Append(front, key)

\* the list under one key overwritten by each row instead of appended to
GroupRowsLastOnly(rows, carrier_field, key) ==
    LET all == SelectSeq(rows, LAMBDA r : CarrierKey(r, carrier_field) = key)
    IN  IF all = <<>> THEN <<>> ELSE <<all[Len(all)]>>

\* _group_rows_by_carrier: the list stored under one key
GroupRows(rows, carrier_field, key) ==
    SelectSeq(rows, LAMBDA r : CarrierKey(r, carrier_field) = key)

\* _group_rows_by_carrier: (key, rows) items in dict order
GroupRowsByCarrier(rows, carrier_field) ==
    LET keys == GroupKeys(rows, carrier_field)
    IN  [i \in 1..Len(keys) |->
            [carrier_name |-> keys[i], rows |-> GroupRows(rows, carrier_field, keys[i])]]

\* _normalize_row._parse_amount: drop "," and "$", then float(); the float of a
\* short decimal numeral is kept as the decimal it prints back as
ParseAmount(value) ==
    IF ~Truthy(value) THEN DNull
    ELSE ParseDecimal(SelectSeq(value, LAMBDA c : c \notin {",", "$"})).val

PremiumAliases == <<K_premium, K_Premium, K_Written_Premium, K_Total_Premium>>
CommissionAliases == <<K_commission, K_Commission, K_Commission_Amount, K_Commission_Total>>

PolicyAliases == <<K_policy_number, K_Policy_Number, K_Policy_No, K_Policy>>
CustomerAliases == <<K_customer, K_Customer_Name, K_Insured, K_Client>>

\* _normalize_row: the columns the canonical fields are read from
KnownKeys(carrier_field) ==
    {carrier_field} \cup Range(PremiumAliases) \cup Range(CommissionAliases)
        \cup Range(PolicyAliases) \cup Range(CustomerAliases)

\* _normalize_row; additional_data is the dict of the remaining non-empty cells
NormalizeRow(row, carrier_field) ==
    [carrier |-> Get(row, carrier_field),
     policy_number |-> FirstTruthy(row, PolicyAliases),
     customer |-> FirstTruthy(row, CustomerAliases),
     premium |-> ParseAmount(FirstTruthy(row, PremiumAliases)),
     commission |-> ParseAmount(FirstTruthy(row, CommissionAliases)),
     additional_data |->
        [k \in {key \in DOMAIN row : key \notin KnownKeys(carrier_field) /\ Truthy(row[key])}
            |-> row[k]]]

\* first key of keys whose value parses with _decimal_or_none, else None
RECURSIVE FirstDecimal(_, _)
FirstDecimal(row, keys) ==
    IF keys = <<>> THEN DNull
    ELSE IF ~DecimalOrNone(Get(row, Head(keys))).null THEN DecimalOrNone(Get(row, Head(keys)))
    ELSE FirstDecimal(row, Tail(keys))

\* _resolve_commission_amount that multiplies by the rate as written, never
\* dividing it by 100
ResolveCommissionAmountRateAsIs(row, premium) ==
    LET explicit == FirstDecimal(row, <<K_commission, K_commission_amount,
                        K_commission_total, K_agent_commission, K_split_amount>>)
        rate == DecimalOrNone(OrS(Get(row, K_commission_rate), Get(row, K_rate)))
    IN  IF ~explicit.null THEN explicit
        ELSE IF ~premium.null /\ ~rate.null THEN DecMul(premium, rate)
             ELSE DNull

\* _resolve_commission_amount
ResolveCommissionAmount(row, premium) ==
    LET explicit == FirstDecimal(row, <<K_commission, K_commission_amount,
                        K_commission_total, K_agent_commission, K_split_amount>>)
        rate == DecimalOrNone(OrS(Get(row, K_commission_rate), Get(row, K_rate)))
    IN  IF ~explicit.null THEN explicit
        ELSE IF ~premium.null /\ ~rate.null
             THEN DecMul(premium, IF DecGtOne(rate) THEN DecDiv100(rate) ELSE rate)
             ELSE DNull

\* _resolve_commission_amount: the test rate > 1 raises (the rate is a NaN)
ResolveCommissionRaises(row, premium) ==
    LET explicit == FirstDecimal(row, <<K_commission, K_commission_amount,
                        K_commission_total, K_agent_commission, K_split_amount>>)
        rate == DecimalOrNone(OrS(Get(row, K_commission_rate), Get(row, K_rate)))
    IN  explicit.null /\ ~premium.null /\ DecGtRaises(rate)

HintKeys == <<K_producer, K_producer_name, K_producer_full_name, K_agent,
              K_agent_name, K_writer, K_producer_email, K_agent_email>>

\* _match_producer that falls back to the first candidate whenever no hint
\* matches, also when there are several
MatchProducerGuessFirst(row, workspace_id, accessible_producers) ==
    LET wp == SelectSeq(accessible_producers, LAMBDA p : p.workspace_id = workspace_id)
        hints == {SafeStr(Get(row, HintKeys[i])) :
                    i \in {j \in 1..Len(HintKeys) : Truthy(Get(row, HintKeys[j]))}}
        Hit(p, h) == \/ (p.display_name # <<>> /\ SafeStr(p.display_name) = h)
                     \/ (Truthy(p.email) /\ SafeStr(p.email) = h)
        First(h) == wp[CHOOSE i \in 1..Len(wp) :
                        Hit(wp[i], h) /\ \A j \in 1..(i - 1) : ~Hit(wp[j], h)].id
        matched == {h \in hints : \E i \in 1..Len(wp) : Hit(wp[i], h)}
    IN  IF wp = <<>> THEN {0}
        ELSE IF matched # {} THEN {First(h) : h \in matched}
        ELSE {wp[1].id}

\* _match_producer: the producer ids the function can return (0 = None).  The
\* hints are visited in set order, which Python does not fix: every hint that
\* matches some producer can be the one that decides.
MatchProducer(row, workspace_id, accessible_producers) ==
    LET wp == SelectSeq(accessible_producers, LAMBDA p : p.workspace_id = workspace_id)
        hints == {SafeStr(Get(row, HintKeys[i])) :
                    i \in {j \in 1..Len(HintKeys) : Truthy(Get(row, HintKeys[j]))}}
        Hit(p, h) == \/ (p.display_name # <<>> /\ SafeStr(p.display_name) = h)
                     \/ (Truthy(p.email) /\ SafeStr(p.email) = h)
        First(h) == wp[CHOOSE i \in 1..Len(wp) :
                        Hit(wp[i], h) /\ \A j \in 1..(i - 1) : ~Hit(wp[j], h)].id
        matched == {h \in hints : \E i \in 1..Len(wp) : Hit(wp[i], h)}
    IN  IF wp = <<>> THEN {0}
        ELSE IF matched # {} THEN {First(h) : h \in matched}
        ELSE IF Len(wp) = 1 THEN {wp[1].id} ELSE {0}

\* producer.default_split of a producer id (None for no producer)
DefaultSplit(producer_id) ==
    IF producer_id = 0 THEN DNull
    ELSE Producers[CHOOSE i \in 1..Len(Producers) : Producers[i].id = producer_id].default_split

\* _resolve_split
ResolveSplit(row, producer_id) ==
    LET explicit == FirstDecimal(row, <<K_split_pct, K_split, K_split_Pct,
                        K_producer_split, K_agent_split>>)
    IN  IF ~explicit.null THEN explicit ELSE DefaultSplit(producer_id)

\* _calculate_amount that gives zero, not None, for an unknown commission
CalculateAmountZeroWhenUnknown(commission, split_pct, row) ==
    LET amount == DecimalOrNone(OrS(Get(row, K_agent_amount), Get(row, K_producer_amount)))
    IN  IF ~amount.null THEN amount
        ELSE IF commission.null THEN Dec(0)
        ELSE IF ~split_pct.null THEN DecMul(commission, DecDiv100(split_pct))
        ELSE commission

\* _calculate_amount
CalculateAmount(commission, split_pct, row) ==
    LET amount == DecimalOrNone(OrS(Get(row, K_agent_amount), Get(row, K_producer_amount)))
    IN  IF ~amount.null THEN amount
        ELSE IF commission.null THEN DNull
        ELSE IF ~split_pct.null THEN DecMul(commission, DecDiv100(split_pct))
        ELSE commission

\* _resolve_category (every organisation here uses the built-in choices, and
\* both branches of the membership test return the same value)
ResolveCategory(row) ==
    LET v == FirstTruthy(row, <<K_category, K_commission_type, K_type,
                                K_revenue_type, K_line_type>>)
    IN  IF Truthy(v) THEN SafeStr(v) ELSE K_raw

\* normalized.get(k) or raw.get(k), then _decimal_or_none
MoneyOf(normalized_value, raw_value) ==
    IF DecTruthy(normalized_value) THEN normalized_value ELSE DecimalOrNone(raw_value)

K_provisional == <<"p","r","o","v","i","s","i","o","n","a","l">>

\* _build_transaction: the record built for one import row; made = FALSE
\* stands for the None returned when nothing monetary resolves, raised = TRUE
\* for the exception that leaves the function.  id is the primary key the flush
\* will give it.
BuildTransaction(id, import_row, batch, workspace_id, carrier, producer_id, u) ==
    Once(import_row.raw, LAMBDA raw :
    Once(import_row.normalized, LAMBDA normalized :
    Once(MoneyOf(normalized.premium, Get(raw, K_premium)), LAMBDA premium :
    Once(MoneyOf(normalized.commission, Get(raw, K_commission)), LAMBDA c0 :
    Once(IF c0.null THEN ResolveCommissionAmount(raw, premium) ELSE c0, LAMBDA commission :
    Once(ResolveSplit(raw, producer_id), LAMBDA split_pct :
    Once(CalculateAmount(commission, split_pct, raw), LAMBDA amount :
    Once(c0.null /\ ResolveCommissionRaises(raw, premium), LAMBDA raised :
        [raised |-> raised,
         made |-> ~raised /\ ~(premium.null /\ commission.null /\ amount.null),
         txn |-> [id |-> id,
                  row_id |-> import_row.id,
                  org_id |-> batch.org_id,
                  batch_id |-> batch.id,
                  workspace_id |-> workspace_id,
                  producer_id |-> producer_id,
                  premium |-> premium,
                  commission |-> commission,
                  split_pct |-> split_pct,
                  amount |-> IF ~amount.null THEN amount ELSE commission,
                  category |-> ResolveCategory(raw),
                  carrier_name |-> carrier.name,
                  source |-> "import",
                  status |-> K_provisional,
                  created_by |-> u,
                  manual_amount |-> DNull,
                  manual_split_pct |-> DNull,
                  override_source |-> "none",
                  override_applied_at |-> 0,
                  override_applied_by |-> 0]]))))))))

(* -------------------------------- dates -------------------------------- *)

\* s contains t as a substring
Contains(s, t) ==
    \E text \in {s} : \E i \in 1..(Len(text) - Len(t) + 1) :
        SubSeq(text, i, i + Len(t) - 1) = t

\* the fields of s between the occurrences of the character c
RECURSIVE Fields(_, _)
Fields(s, c) ==
    IF \A i \in 1..Len(s) : s[i] # c THEN <<s>>
    ELSE Once(CHOOSE i \in 1..Len(s) : s[i] = c /\ \A j \in 1..(i - 1) : s[j] # c, LAMBDA k :
         Once(SubSeq(s, k + 1, Len(s)), LAMBDA rest :
            <<SubSeq(s, 1, k - 1)>> \o Fields(rest, c)))

AllDigits(f) == f # <<>> /\ \A i \in 1..Len(f) : IsDigit(f[i])

\* strptime directives: %Y is four digits, %y two digits (00-68 are 20xx),
\* %m is 1-12 and %d 1-31 in one or two digits (%d also a blank and a digit)
IsYear4(f) == Len(f) = 4 /\ AllDigits(f)
IsYear2(f) == Len(f) = 2 /\ AllDigits(f)
Year2Val(f) == IF DigitsVal(f) < 69 THEN 2000 + DigitsVal(f) ELSE 1900 + DigitsVal(f)
IsMonthField(f) == Len(f) \in {1, 2} /\ AllDigits(f) /\ DigitsVal(f) \in 1..12
IsDayField(f) ==
    \/ Len(f) \in {1, 2} /\ AllDigits(f) /\ DigitsVal(f) \in 1..31
    \/ Len(f) = 2 /\ f[1] = " " /\ IsDigit(f[2]) /\ f[2] # "0"
DayVal(f) == IF f[1] = " " THEN DigitVal(f[2]) ELSE DigitsVal(f)

\* %b: the abbreviated month names, matched ignoring case
MonthAbbr ==
    <<<<"j","a","n">>, <<"f","e","b">>, <<"m","a","r">>, <<"a","p","r">>, <<"m","a","y">>, <<"j","u","n">>,
      <<"j","u","l">>, <<"a","u","g">>, <<"s","e","p">>, <<"o","c","t">>, <<"n","o","v">>, <<"d","e","c">>>>
IsMonthName(f) == \E i \in 1..12 : MonthAbbr[i] = Lower(f)
MonthNameVal(f) == CHOOSE i \in 1..12 : MonthAbbr[i] = Lower(f)

IsLeap(y) == (y % 4 = 0 /\ y % 100 # 0) \/ y % 400 = 0
DaysIn(y, m) ==
    IF m = 2 THEN (IF IsLeap(y) THEN 29 ELSE 28)
    ELSE IF m \in {4, 6, 9, 11} THEN 30 ELSE 31

NoDate == [ok |-> FALSE, y |-> 0, m |-> 0, d |-> 0]

\* datetime(y, m, d).date(), or the ValueError of a day that does not exist
MakeDate(y, m, d) ==
    IF y >= 1 /\ m \in 1..12 /\ d >= 1 /\ d <= DaysIn(y, m)
    THEN [ok |-> TRUE, y |-> y, m |-> m, d |-> d]
    ELSE NoDate

\* strptime with three fields separated by sep, in the order year-month-day
\* (ymd) or month-day-year with a four-digit (mdY) or two-digit (mdy) year
ParseSeparated(s, sep, order) ==
    Once(Fields(s, sep), LAMBDA f :
        IF Len(f) # 3 THEN NoDate
        ELSE IF order = "ymd" /\ IsYear4(f[1]) /\ IsMonthField(f[2]) /\ IsDayField(f[3])
             THEN MakeDate(DigitsVal(f[1]), DigitsVal(f[2]), DayVal(f[3]))
        ELSE IF order = "mdY" /\ IsMonthField(f[1]) /\ IsDayField(f[2]) /\ IsYear4(f[3])
             THEN MakeDate(DigitsVal(f[3]), DigitsVal(f[1]), DayVal(f[2]))
        ELSE IF order = "mdy" /\ IsMonthField(f[1]) /\ IsDayField(f[2]) /\ IsYear2(f[3])
             THEN MakeDate(Year2Val(f[3]), DigitsVal(f[1]), DayVal(f[2]))
        ELSE NoDate)

\* strptime with %Y%m%d: four digits, then the month in two digits where the
\* text allows it and in one digit otherwise, then the day
ParseCompact(s) ==
    LET rest == SubSeq(s, 5, Len(s))
        two == Len(rest) \in {3, 4} /\ Len(SubSeq(rest, 1, 2)) = 2
               /\ SubSeq(rest, 1, 2) # <<"0","0">>
               /\ IsMonthField(SubSeq(rest, 1, 2))
               /\ IsDayField(SubSeq(rest, 3, Len(rest)))
               /\ AllDigits(SubSeq(rest, 3, Len(rest)))
        one == Len(rest) \in {2, 3} /\ rest[1] # "0"
               /\ IsDayField(SubSeq(rest, 2, Len(rest)))
               /\ AllDigits(SubSeq(rest, 2, Len(rest)))
    IN  IF ~(AllDigits(s) /\ Len(s) \in 6..8) THEN NoDate
        ELSE IF two THEN MakeDate(DigitsVal(SubSeq(s, 1, 4)), DigitsVal(SubSeq(rest, 1, 2)),
                                  DigitsVal(SubSeq(rest, 3, Len(rest))))
        ELSE IF one THEN MakeDate(DigitsVal(SubSeq(s, 1, 4)), DigitVal(rest[1]),
                                  DigitsVal(SubSeq(rest, 2, Len(rest))))
        ELSE NoDate

\* strptime with "%b %d %Y" (month_first) or "%d %b %Y": the blanks of the
\* format match any run of blanks
ParseNamed(s, month_first) ==
    Once(SelectSeq(Fields(s, " "), LAMBDA x : x # <<>>), LAMBDA f :
        IF Len(f) # 3 \/ s = <<>> \/ Head(s) = " " \/ s[Len(s)] = " " THEN NoDate
        ELSE IF month_first /\ IsMonthName(f[1]) /\ IsDayField(f[2]) /\ IsYear4(f[3])
             THEN MakeDate(DigitsVal(f[3]), MonthNameVal(f[1]), DigitsVal(f[2]))
        ELSE IF ~month_first /\ IsDayField(f[1]) /\ IsMonthName(f[2]) /\ IsYear4(f[3])
             THEN MakeDate(DigitsVal(f[3]), MonthNameVal(f[2]), DigitsVal(f[1]))
        ELSE NoDate)

\* _parse_any_date: the first format that parses the text
ParseAnyDate(value) ==
    Once(<< ParseSeparated(value, "-", "ymd"), ParseSeparated(value, "/", "ymd"),
            ParseSeparated(value, "/", "mdY"), ParseSeparated(value, "/", "mdy"),
            ParseCompact(value), ParseNamed(value, TRUE), ParseNamed(value, FALSE) >>,
         LAMBDA tries :
    Once({i \in 1..Len(tries) : tries[i].ok}, LAMBDA hits :
        IF hits = {} THEN NoDate ELSE tries[CHOOSE i \in hits : \A j \in hits : i <= j]))

\* datetime.utcnow().date(): every request of a run is served on this day
Today == [ok |-> TRUE, y |-> 2026, m |-> 6, d |-> 15]

\* the order of two dates
DateOrd(t) == t.y * 10000 + t.m * 100 + t.d

\* date.strftime("%Y-%m")
FormatMonth(t) ==
    [i \in 1..7 |-> IF i = 5 THEN "-"
                    ELSE IF i < 5 THEN Digits[((t.y \div Pow10(4 - i)) % 10) + 1]
                    ELSE Digits[((t.m \div Pow10(7 - i)) % 10) + 1]]

\* _derive_period_month: a column counts when its name contains one of these
DateTerms == <<<<"p","e","r","i","o","d">>, <<"m","o","n","t","h">>, <<"d","a","t","e">>, <<"e","f","f","e","c","t","i","v","e">>, <<"w","r","i","t","t","e","n">>>>
IsDateLike(key) ==
    key # <<>> /\ \E key_lower \in {Lower(key)} :
                    \E i \in 1..Len(DateTerms) : Contains(key_lower, DateTerms[i])

\* the keys of a csv.DictReader row, in dict order: the header names in the
\* order of their first occurrence
RECURSIVE KeyOrder(_)
KeyOrder(header) ==
    IF header = <<>> THEN <<>>
    ELSE LET front == KeyOrder(SubSeq(header, 1, Len(header) - 1))
         IN  IF header[Len(header)] \in Range(front) THEN front
             ELSE Append(front, header[Len(header)])

\* _derive_period_month: the date one row contributes, given the row's
\* date-like keys in dict order: the first of them whose value parses (the
\* loop over the columns breaks there); ok = FALSE when the row contributes none
RowDate(row, keys) ==
    Once({i \in 1..Len(keys) :
            /\ Truthy(row[keys[i]])
            /\ ParseAnyDate(row[keys[i]]).ok}, LAMBDA hits :
        IF hits = {} THEN NoDate
        ELSE ParseAnyDate(row[keys[CHOOSE i \in hits : \A j \in hits : i <= j]]))

\* _derive_period_month; today stands for datetime.utcnow().date()
DerivePeriodMonth(file, today) ==
    Once(ReadRows(file), LAMBDA rows :
    Once(SelectSeq(KeyOrder(file.header), IsDateLike), LAMBDA keys :
    Once({t \in {RowDate(row, keys) : row \in Range(rows)} : t.ok}, LAMBDA dates :
    Once(IF dates # {}
         THEN CHOOSE t \in dates : \A o \in dates : DateOrd(t) <= DateOrd(o)
         ELSE today, LAMBDA target :
        FormatMonth(target)))))

(* ------------------------------- inputs ------------------------------- *)

Acme == <<"A","c","m","e">>
AcmeLower == <<"a","c","m","e">>
AcmeUpper == <<"A","C","M","E">>
CsvName == <<"s",".","c","s","v">>
TxtName == <<"s",".","t","x","t">>

\* two spellings of one carrier; the second row has a premium only
FileTwoSpellings ==
    [filename |-> CsvName,
     header |-> <<<<"C","a","r","r","i","e","r">>, K_premium, K_commission>>,
     rows |-> << <<Acme, <<"1","0","0","0">>, <<"1","0","0">> >>,
                 <<AcmeLower, <<"5","0","0">>, <<>> >> >>]

\* a zero premium next to a commission, the carrier cell padded with blanks
FileZeroPremium ==
    [filename |-> CsvName,
     header |-> <<K_carrier, K_premium, K_commission>>,
     rows |-> << << <<" ","A","c","m","e"," ">>, <<"0">>, <<"$","2","0","0">> >> >>]

\* an explicit amount only, then a row with nothing monetary; no carrier value
FileAmountOnly ==
    [filename |-> CsvName,
     header |-> <<K_carrier, K_agent_amount>>,
     rows |-> << << <<>>, <<"4","0">> >>, << <<>>, <<>> >> >>]

\* no carrier column
FileNoCarrier ==
    [filename |-> CsvName,
     header |-> <<K_Policy, K_premium>>,
     rows |-> << << <<"P","1">>, <<"5","0","0">> >> >>]

\* a header and no rows
FileNoRows ==
    [filename |-> CsvName, header |-> <<K_carrier, K_premium>>, rows |-> <<>>]

\* not a CSV file name
FileNotCsv ==
    [filename |-> TxtName,
     header |-> <<K_carrier, K_premium>>,
     rows |-> << <<Acme, <<"5","0","0">> >> >>]

\* a premium next to a rate cell that reads "nan"
FileNanRate ==
    [filename |-> CsvName,
     header |-> <<K_carrier, K_premium, K_commission_rate>>,
     rows |-> << <<Acme, <<"1","0","0","0">>, <<"n","a","n">> >> >>]

Beta == <<"B","e","t","a">>

\* two carriers, the rows of the first one on either side of the second one's
FileInterleaved ==
    [filename |-> CsvName,
     header |-> <<K_carrier, K_premium, K_commission>>,
     rows |-> << <<Acme, <<"1","0","0","0">>, <<"1","0","0">> >>,
                 <<Beta, <<"2","0","0">>, <<"2","0">> >>,
                 <<Acme, <<"3","0","0">>, <<"3","0">> >> >>]

\* the statements that can be uploaded
Files == {FileTwoSpellings, FileZeroPremium, FileAmountOnly,
          FileNoCarrier, FileNoRows, FileNotCsv, FileNanRate}

\* _allowed_file
AllowedFile(filename) ==
    /\ \E i \in 1..Len(filename) : filename[i] = "."
    /\ LET dot == CHOOSE i \in 1..Len(filename) :
                    filename[i] = "." /\ \A j \in (i + 1)..Len(filename) : filename[j] # "."
       IN  Lower(SubSeq(filename, dot + 1, Len(filename))) = <<"c","s","v">>

(* -------------------------------- state ------------------------------- *)

\* the upload requests; each runs once, and they may overlap
Procs == {1, 2}

VARIABLES
    carriers,     \* committed rows of the carriers table
    batches,      \* committed rows of import_batches
    importRows,   \* committed rows of import_rows
    txns,         \* committed rows of commission_txns
    overrides,    \* committed rows of commission_overrides, in insertion order
    nextId,       \* the tables' id sequences
    sess,         \* per upload request: its position and its uncommitted rows
    now,          \* datetime.utcnow(), as a logical clock
    counts,       \* requests accepted so far, per kind
    last,         \* the request that completed last: its inputs, its outcome
                  \* and the committed tables as they were when it began
    probe         \* one call of a row-level function: its arguments and result

vars == <<carriers, batches, importRows, txns, overrides, nextId, sess, now, counts, last, probe>>

IdleSess ==
    [pc |-> "idle", user |-> 0, workspace_id |-> 0, carrier_field |-> NoneS,
     file |-> FileNoRows, period |-> <<>>, groups |-> <<>>, carriers |-> {},
     batches |-> {}, rows |-> {}, txns |-> {}, summary |-> <<>>]

NoForm ==
    [manual_amount |-> NoneS, manual_split_pct |-> NoneS, clear_manual_amount |-> FALSE,
     clear_manual_split |-> FALSE, status |-> NoneS, notes |-> NoneS]

EmptyTables ==
    [carriers |-> {}, batches |-> {}, importRows |-> {}, txns |-> {}, overrides |-> <<>>]

NoLast ==
    [op |-> "none", result |-> "none", user |-> 0, proc |-> 0, ids |-> {}, applied |-> {},
     mode |-> "none", value_raw |-> NoneS, form |-> NoForm, file |-> FileNoRows,
     summary |-> <<>>, pre |-> EmptyTables]

NoProbe == [kind |-> "none"]

Tables ==
    [carriers |-> carriers, batches |-> batches, importRows |-> importRows,
     txns |-> txns, overrides |-> overrides]

FirstIds == [carrier |-> 1, batch |-> 1, row |-> 1, txn |-> 1]

Init ==
    /\ carriers = {}
    /\ batches = {}
    /\ importRows = {}
    /\ txns = {}
    /\ overrides = <<>>
    /\ nextId = FirstIds
    /\ sess = [p \in Procs |-> IdleSess]
    /\ now = 1
    /\ counts = [forms |-> 0, engine |-> 0]
    /\ last = NoLast
    /\ probe = NoProbe

\* the users of the organisation whose statements are uploaded
Org1Users == {u \in DOMAIN Users : Users[u].org_id = 1}

\* admin.require_admin
RequireAdmin(u) == Users[u].role \in {"owner", "admin", "agent"}

(* ------------------------------- upload -------------------------------- *)

\* upload without the test for the carrier column: a file with no such column
\* goes on to the import loop
UploadCheckNoCarrierTest(u, workspace_id_raw, file) ==
    IF FindWorkspaceForUpload(u, workspace_id_raw) = 0 THEN "no_workspace"
    ELSE IF ~AllowedFile(file.filename) THEN "not_csv"
    ELSE IF ReadRows(file) = <<>> THEN "no_rows"
    ELSE "started"

\* upload, up to the loop over the carrier groups: which early return is
\* taken, or "started"
UploadCheck(u, workspace_id_raw, file) ==
    IF FindWorkspaceForUpload(u, workspace_id_raw) = 0 THEN "no_workspace"
    ELSE IF ~AllowedFile(file.filename) THEN "not_csv"
    ELSE IF CarrierField(file.header) = NoneS THEN "no_carrier_column"
    ELSE IF ReadRows(file) = <<>> THEN "no_rows"
    ELSE "started"

\* upload: the request's state on entering the loop over the carrier groups
StartSession(u, workspace_id_raw, file) ==
    [IdleSess EXCEPT !.pc = "groups", !.user = u,
        !.workspace_id = FindWorkspaceForUpload(u, workspace_id_raw),
        !.carrier_field = CarrierField(file.header),
        !.file = file,
        !.period = DerivePeriodMonth(file, Today),
        !.groups = GroupRowsByCarrier(ReadRows(file), CarrierField(file.header))]

\* _resolve_carrier: the rows the lookup can return (first() of an unordered
\* query), over the committed rows and the session's own flushed rows
CarrierMatches(visible, org_id, carrier_name) ==
    {c \in visible : c.org_id = org_id /\ Lower(c.name) = Lower(carrier_name)}

\* _resolve_carrier: the row inserted when the lookup finds nothing
NewCarrier(id, org_id, carrier_name) ==
    [id |-> id, org_id |-> org_id, name |-> carrier_name]

\* _resolve_carrier: what it can return for the next group of session s
ResolveCarrier(s, committed, ids) ==
    LET org_id == Users[s.user].org_id
        found == CarrierMatches(committed \cup s.carriers, org_id, Head(s.groups).carrier_name)
    IN  IF found = {} THEN {NewCarrier(ids.carrier, org_id, Head(s.groups).carrier_name)}
        ELSE found

\* the producers _match_producer can return for each row of the next group
ProducerPicks(s) ==
    LET g == Head(s.groups)
    IN  {pick \in [1..Len(g.rows) -> {0} \cup {Producers[i].id : i \in 1..Len(Producers)}] :
            \A i \in 1..Len(g.rows) :
                pick[i] \in MatchProducer(g.rows[i], s.workspace_id,
                                          GetAccessibleProducers(s.user))}

\* upload: one iteration of the loop over the carrier groups, given what
\* _resolve_carrier and _match_producer returned: the session and the id
\* sequences afterwards; raised = TRUE when _build_transaction raises on one
\* of the rows, after the carrier, the batch and the import rows were flushed
ImportGroup(s, ids, carrier, pick) ==
    LET g == Head(s.groups)
        n == Len(g.rows)
        org_id == Users[s.user].org_id
        created == carrier.id = ids.carrier
        batch == [id |-> ids.batch, org_id |-> org_id, carrier_id |-> carrier.id,
                  workspace_id |-> s.workspace_id, period_month |-> s.period,
                  status |-> "imported", created_by |-> s.user]
        ImportRow(i) == [id |-> ids.row + i - 1, batch_id |-> batch.id,
                         raw |-> g.rows[i],
                         normalized |-> NormalizeRow(g.rows[i], s.carrier_field)]
        Built(i, id) == BuildTransaction(id, ImportRow(i), batch, s.workspace_id,
                                         carrier, pick[i], s.user)
    IN  Once({ImportRow(i) : i \in 1..n}, LAMBDA import_rows :
        Once([i \in 1..n |-> Built(i, 0)], LAMBDA built :
        Once({i \in 1..n : built[i].made}, LAMBDA madeIdx :
        Once({Built(i, ids.txn + Cardinality({j \in madeIdx : j < i})).txn : i \in madeIdx},
             LAMBDA new_txns :
        [raised |-> \E i \in 1..n : built[i].raised,
         sess |-> [s EXCEPT !.groups = Tail(s.groups),
                            !.carriers = @ \cup (IF created THEN {carrier} ELSE {}),
                            !.batches = @ \cup {batch},
                            !.rows = @ \cup import_rows,
                            !.txns = @ \cup new_txns,
                            !.summary = Append(@,
                                [carrier |-> carrier.name, batch_id |-> batch.id,
                                 rows |-> n, transactions |-> Cardinality(madeIdx)])],
         ids |-> [carrier |-> ids.carrier + (IF created THEN 1 ELSE 0),
                  batch |-> ids.batch + 1,
                  row |-> ids.row + n,
                  txn |-> IF \E i \in 1..n : built[i].raised THEN ids.txn
                          ELSE ids.txn + Cardinality(madeIdx)]]))))

\* upload, first part
UploadStart(p, u, workspace_id_raw, file) ==
    /\ sess[p].pc = "idle"
    /\ IF UploadCheck(u, workspace_id_raw, file) = "started"
       THEN /\ sess' = [sess EXCEPT ![p] = StartSession(u, workspace_id_raw, file)]
            /\ UNCHANGED last
       ELSE /\ last' = [NoLast EXCEPT !.op = "upload",
                            !.result = UploadCheck(u, workspace_id_raw, file),
                            !.user = u, !.proc = p, !.file = file, !.pre = Tables]
            /\ sess' = [sess EXCEPT ![p] = [IdleSess EXCEPT !.pc = "done"]]
    /\ UNCHANGED <<carriers, batches, importRows, txns, overrides, nextId, now, counts, probe>>

\* upload: one iteration of the loop over the carrier groups.  An exception
\* ends the request with nothing committed (the session is rolled back)
UploadGroup(p) ==
    /\ sess[p].pc = "groups"
    /\ sess[p].groups # <<>>
    /\ \E carrier \in ResolveCarrier(sess[p], carriers, nextId), pick \in ProducerPicks(sess[p]) :
          \E step \in {ImportGroup(sess[p], nextId, carrier, pick)} :
              /\ nextId' = step.ids
              /\ IF step.raised
                 THEN /\ sess' = [sess EXCEPT ![p] = [IdleSess EXCEPT !.pc = "done"]]
                      /\ last' = [NoLast EXCEPT !.op = "upload", !.result = "error",
                                      !.user = sess[p].user, !.proc = p,
                                      !.file = sess[p].file, !.pre = Tables]
                 ELSE /\ sess' = [sess EXCEPT ![p] = step.sess]
                      /\ UNCHANGED last
    /\ UNCHANGED <<carriers, batches, importRows, txns, overrides, now, counts, probe>>

\* upload: db.session.commit() after the loop
UploadCommit(p) ==
    /\ sess[p].pc = "groups"
    /\ sess[p].groups = <<>>
    /\ carriers' = carriers \cup sess[p].carriers
    /\ batches' = batches \cup sess[p].batches
    /\ importRows' = importRows \cup sess[p].rows
    /\ txns' = txns \cup sess[p].txns
    /\ sess' = [sess EXCEPT ![p] = [IdleSess EXCEPT !.pc = "done"]]
    /\ last' = [NoLast EXCEPT !.op = "upload", !.result = "imported",
                    !.user = sess[p].user, !.proc = p, !.file = sess[p].file,
                    !.summary = sess[p].summary, !.pre = Tables]
    /\ UNCHANGED <<overrides, nextId, now, counts, probe>>

MaxCarrierForms == 1

\* admin.create_carrier
CreateCarrier(u, name) ==
    /\ RequireAdmin(u)
    /\ counts.forms < MaxCarrierForms
    /\ IF Truthy(name)
       THEN /\ carriers' = carriers \cup {NewCarrier(nextId.carrier, Users[u].org_id, name)}
            /\ nextId' = [nextId EXCEPT !.carrier = @ + 1]
            /\ counts' = [counts EXCEPT !.forms = @ + 1]
            /\ last' = [NoLast EXCEPT !.op = "create_carrier", !.result = "added",
                            !.user = u, !.value_raw = name, !.pre = Tables]
       ELSE /\ last' = [NoLast EXCEPT !.op = "create_carrier", !.result = "name_required",
                            !.user = u, !.value_raw = name, !.pre = Tables]
            /\ UNCHANGED <<carriers, nextId, counts>>
    /\ UNCHANGED <<batches, importRows, txns, overrides, sess, now, probe>>

(* --------------------------- override engine --------------------------- *)

\* requests served in one behaviour of the override engine's specification
MaxEngine == 2

ValidModes == {"flat", "percent", "split"}

\* apply_commission_override: the permission test that skips a transaction
SkipTxn(u, txn) ==
    /\ Users[u].role = "agent"
    /\ GetAccessibleWorkspaceIds(u) # {}
    /\ txn.workspace_id \notin GetAccessibleWorkspaceIds(u)

\* percent mode with the base chosen by "is not None" instead of "or"
PercentBaseFirstNonNull(txn) ==
    IF ~txn.premium.null THEN txn.premium
    ELSE IF ~txn.amount.null THEN txn.amount ELSE txn.commission

\* apply_commission_override, percent mode: base = premium or amount or commission
PercentBase(txn) == OrD(txn.premium, OrD(txn.amount, txn.commission))

\* split mode with a base of zero when the transaction holds no money value
SplitBaseOrZero(txn) ==
    IF ~txn.commission.null THEN txn.commission
    ELSE IF ~txn.amount.null THEN txn.amount
    ELSE IF ~txn.premium.null THEN txn.premium ELSE Dec(0)

\* apply_commission_override, split mode: commission, else amount, else premium
SplitBase(txn) ==
    LET base == IF ~txn.commission.null THEN txn.commission ELSE txn.amount
    IN  IF base.null /\ ~txn.premium.null THEN txn.premium ELSE base

\* base * (override_value / Decimal("100"))
Calculated(base, override_value) == DecMul(base, DecDiv100(override_value))

\* apply_commission_override: the body of the loop for one transaction
ApplyOverride(txn, override_mode, override_value, u, t) ==
    LET stamped == [txn EXCEPT !.override_applied_at = t, !.override_applied_by = u]
        pbase == PercentBase(txn)
        sbase == SplitBase(txn)
    IN  IF override_mode = "flat"
        THEN [stamped EXCEPT !.manual_amount = override_value,
                             !.amount = override_value,
                             !.commission = override_value,
                             !.override_source = "manual_flat"]
        ELSE IF override_mode = "percent"
        THEN IF ~pbase.null
             THEN [stamped EXCEPT !.amount = Calculated(pbase, override_value),
                                  !.manual_amount = Calculated(pbase, override_value),
                                  !.commission = Calculated(pbase, override_value),
                                  !.override_source = "manual_percent"]
             ELSE [stamped EXCEPT !.override_source = "manual_percent"]
        ELSE IF override_mode # "split" THEN stamped
        ELSE IF ~sbase.null
             THEN [stamped EXCEPT !.manual_split_pct = override_value,
                                  !.split_pct = override_value,
                                  !.amount = Calculated(sbase, override_value),
                                  !.manual_amount = Calculated(sbase, override_value),
                                  !.commission = Calculated(sbase, override_value),
                                  !.override_source = "manual_split"]
             ELSE [stamped EXCEPT !.manual_split_pct = override_value,
                                  !.split_pct = override_value,
                                  !.override_source = "manual_split"]

\* the CommissionOverride row with the value always stored as a flat amount
BulkOverrideRowFlatOnly(txn, override_mode, override_value, u, notes, t) ==
    [org_id |-> Users[u].org_id,
     transaction_id |-> txn.id,
     override_type |-> override_mode,
     flat_amount |-> override_value,
     percent |-> DNull,
     split_pct |-> DNull,
     applied_by |-> u,
     notes |-> notes,
     applied_at |-> t]

\* the CommissionOverride row built by apply_commission_override
BulkOverrideRow(txn, override_mode, override_value, u, notes, t) ==
    [org_id |-> Users[u].org_id,
     transaction_id |-> txn.id,
     override_type |-> override_mode,
     flat_amount |-> IF override_mode = "flat" THEN override_value ELSE DNull,
     percent |-> IF override_mode = "percent" THEN override_value ELSE DNull,
     split_pct |-> IF override_mode = "split" THEN override_value ELSE DNull,
     applied_by |-> u,
     notes |-> notes,
     applied_at |-> t]

\* the log rewritten with the new rows only
LogReplace(log, rows) == rows

\* db.session.add(override) ... db.session.commit(): rows inserted into
\* commission_overrides
LogAppend(log, rows) == log \o rows

\* the transactions of a set, in primary-key order
RECURSIVE ById(_)
ById(S) ==
    IF S = {} THEN <<>>
    ELSE LET m == CHOOSE x \in S : \A y \in S : x.id <= y.id
         IN  <<m>> \o ById(S \ {m})

\* the query without the organisation filter
SelectTransactionsAnyOrg(u, txn_ids) == {x \in txns : x.id \in txn_ids}

\* CommissionTransaction.query.filter(id.in_(txn_ids), org_id == current_user.org_id)
SelectTransactions(u, txn_ids) ==
    {x \in txns : x.id \in txn_ids /\ x.org_id = Users[u].org_id}

\* apply_commission_override: which early return is taken, or "applied"
BulkCheck(u, txn_ids, override_mode, override_value_raw) ==
    LET transactions == SelectTransactions(u, txn_ids)
    IN  IF txn_ids = {} THEN "none_selected"
        ELSE IF override_mode \notin ValidModes THEN "invalid_mode"
        ELSE IF ~ParseDecimal(override_value_raw).ok THEN "invalid_value"
        ELSE IF transactions = {} THEN "no_match"
        ELSE IF \A x \in transactions : SkipTxn(u, x) THEN "none_applied"
        ELSE "applied"

\* admin.apply_commission_override
ApplyCommissionOverride(u, txn_ids, override_mode, override_value_raw, notes) ==
    LET result == BulkCheck(u, txn_ids, override_mode, override_value_raw)
        override_value == ParseDecimal(override_value_raw).val
        transactions == SelectTransactions(u, txn_ids)
        todo == {x \in transactions : ~SkipTxn(u, x)}
        rows == [i \in 1..Cardinality(todo) |->
                    BulkOverrideRow(ById(todo)[i], override_mode, override_value, u, notes, now)]
    IN  /\ RequireAdmin(u)
        /\ counts.engine < MaxEngine
        /\ IF result = "applied"
           THEN /\ txns' = (txns \ todo) \cup
                        {ApplyOverride(x, override_mode, override_value, u, now) : x \in todo}
                /\ overrides' = LogAppend(overrides, rows)
                /\ now' = now + 1
                /\ counts' = [counts EXCEPT !.engine = @ + 1]
                /\ last' = [NoLast EXCEPT !.op = "bulk", !.result = result, !.user = u,
                                !.ids = txn_ids, !.applied = {x.id : x \in todo},
                                !.mode = override_mode, !.value_raw = override_value_raw,
                                !.pre = Tables]
           ELSE /\ last' = [NoLast EXCEPT !.op = "bulk", !.result = result, !.user = u,
                                !.ids = txn_ids, !.mode = override_mode,
                                !.value_raw = override_value_raw, !.pre = Tables]
                /\ counts' = [counts EXCEPT !.engine = @ + 1]
                /\ UNCHANGED <<txns, overrides, now>>
        /\ UNCHANGED <<carriers, batches, importRows, nextId, sess, probe>>

\* (request.form.get(name) or "").strip() or None
StripOrNone(v) == IF Truthy(v) /\ Strip(v) # <<>> THEN Strip(v) ELSE NoneS

\* edit_transaction without the parse test of the manual split: the amount
\* already parsed is applied
EditCheckNoSplitTest(u, txn_id, form) ==
    LET found == {x \in txns : x.id = txn_id /\ x.org_id = Users[u].org_id}
    IN  IF found = {} THEN "not_found"
        ELSE IF \E x \in found : SkipTxn(u, x) THEN "forbidden"
        ELSE IF Truthy(form.manual_amount) /\ ~ParseDecimal(form.manual_amount).ok
             THEN "invalid_amount"
        ELSE "updated"

\* edit_transaction: which early return is taken, or "updated"
EditCheck(u, txn_id, form) ==
    LET found == {x \in txns : x.id = txn_id /\ x.org_id = Users[u].org_id}
    IN  IF found = {} THEN "not_found"
        ELSE IF \E x \in found : SkipTxn(u, x) THEN "forbidden"
        ELSE IF Truthy(form.manual_amount) /\ ~ParseDecimal(form.manual_amount).ok
             THEN "invalid_amount"
        ELSE IF Truthy(form.manual_split_pct) /\ ~ParseDecimal(form.manual_split_pct).ok
             THEN "invalid_split"
        ELSE "updated"

\* the manual amount part leaving the gross commission as it was
EditAmountKeepsCommission(txn, manual_amount, clear_manual_amount) ==
    IF ~manual_amount.null
    THEN [txn EXCEPT !.manual_amount = manual_amount,
                     !.amount = manual_amount,
                     !.override_source = "manual_edit"]
    ELSE IF clear_manual_amount
    THEN [txn EXCEPT !.manual_amount = DNull,
                     !.override_source = IF @ = "manual_edit" THEN "none" ELSE @]
    ELSE txn

\* the manual amount part with the clear branch resetting the source whatever
\* it was
EditAmountAlwaysResets(txn, manual_amount, clear_manual_amount) ==
    IF ~manual_amount.null
    THEN [txn EXCEPT !.manual_amount = manual_amount,
                     !.amount = manual_amount,
                     !.commission = manual_amount,
                     !.override_source = "manual_edit"]
    ELSE IF clear_manual_amount
    THEN [txn EXCEPT !.manual_amount = DNull, !.override_source = "none"]
    ELSE txn

\* edit_transaction: the manual amount part
EditAmount(txn, manual_amount, clear_manual_amount) ==
    IF ~manual_amount.null
    THEN [txn EXCEPT !.manual_amount = manual_amount,
                     !.amount = manual_amount,
                     !.commission = manual_amount,
                     !.override_source = "manual_edit"]
    ELSE IF clear_manual_amount
    THEN [txn EXCEPT !.manual_amount = DNull,
                     !.override_source = IF @ = "manual_edit" THEN "none" ELSE @]
    ELSE txn

\* the manual split part tagging the source with a name of its own
EditSplitOwnTag(txn, manual_split, clear_manual_split) ==
    IF ~manual_split.null
    THEN [txn EXCEPT !.manual_split_pct = manual_split,
                     !.split_pct = manual_split,
                     !.override_source = IF @ = "none" THEN "manual_split_edit" ELSE @]
    ELSE IF clear_manual_split
    THEN [txn EXCEPT !.manual_split_pct = DNull]
    ELSE txn

\* edit_transaction: the manual split part
EditSplit(txn, manual_split, clear_manual_split) ==
    IF ~manual_split.null
    THEN [txn EXCEPT !.manual_split_pct = manual_split,
                     !.split_pct = manual_split,
                     !.override_source = IF @ = "none" THEN "manual_edit" ELSE @]
    ELSE IF clear_manual_split
    THEN [txn EXCEPT !.manual_split_pct = DNull]
    ELSE txn

\* edit_transaction: the transaction as committed
EditedTxn(txn, form, u, t) ==
    LET manual_amount == IF Truthy(form.manual_amount)
                         THEN ParseDecimal(form.manual_amount).val ELSE DNull
        manual_split == IF Truthy(form.manual_split_pct)
                        THEN ParseDecimal(form.manual_split_pct).val ELSE DNull
        a == EditAmount(txn, manual_amount, form.clear_manual_amount)
        b == EditSplit(a, manual_split, form.clear_manual_split)
        c == IF StripOrNone(form.status) # NoneS
             THEN [b EXCEPT !.status = StripOrNone(form.status)] ELSE b
    IN  [c EXCEPT !.override_applied_at = t, !.override_applied_by = u]

\* the audit test without the note: an edit that carries only a note writes
\* no row
EditLogsWithoutNotes(form) ==
    \/ Truthy(form.manual_amount)
    \/ Truthy(form.manual_split_pct)

\* the audit test passing also when the edit clears a manual value
EditLogsAlsoOnClear(form) ==
    \/ StripOrNone(form.notes) # NoneS
    \/ Truthy(form.manual_amount)
    \/ Truthy(form.manual_split_pct)
    \/ form.clear_manual_amount
    \/ form.clear_manual_split

\* edit_transaction: whether a CommissionOverride row is written
EditLogs(form) ==
    \/ StripOrNone(form.notes) # NoneS
    \/ Truthy(form.manual_amount)
    \/ Truthy(form.manual_split_pct)

\* the CommissionOverride row built by edit_transaction
EditOverrideRow(txn, form, u, t) ==
    [org_id |-> Users[u].org_id,
     transaction_id |-> txn.id,
     override_type |-> "manual_edit",
     flat_amount |-> IF Truthy(form.manual_amount)
                     THEN ParseDecimal(form.manual_amount).val ELSE DNull,
     percent |-> DNull,
     split_pct |-> IF Truthy(form.manual_split_pct)
                   THEN ParseDecimal(form.manual_split_pct).val ELSE DNull,
     applied_by |-> u,
     notes |-> StripOrNone(form.notes),
     applied_at |-> t]

\* admin.edit_transaction
EditTransaction(u, txn_id, form) ==
    LET result == EditCheck(u, txn_id, form)
        txn == CHOOSE x \in txns : x.id = txn_id
    IN  /\ RequireAdmin(u)
        /\ counts.engine < MaxEngine
        /\ IF result = "updated"
           THEN /\ txns' = (txns \ {txn}) \cup {EditedTxn(txn, form, u, now)}
                /\ overrides' = IF EditLogs(form)
                                THEN LogAppend(overrides, <<EditOverrideRow(txn, form, u, now)>>)
                                ELSE overrides
                /\ now' = now + 1
                /\ counts' = [counts EXCEPT !.engine = @ + 1]
                /\ last' = [NoLast EXCEPT !.op = "edit", !.result = result, !.user = u,
                                !.ids = {txn_id}, !.applied = {txn_id}, !.form = form,
                                !.pre = Tables]
           ELSE /\ last' = [NoLast EXCEPT !.op = "edit", !.result = result, !.user = u,
                                !.ids = {txn_id}, !.form = form, !.pre = Tables]
                /\ counts' = [counts EXCEPT !.engine = @ + 1]
                /\ UNCHANGED <<txns, overrides, now>>
        /\ UNCHANGED <<carriers, batches, importRows, nextId, sess, probe>>

(* ---------------------------- manual entry ---------------------------- *)

\* _get_category_choices for an organisation without category tags
CategoryChoices ==
    <<<<"A","u","t","o">>, <<"H","o","m","e">>, <<"R","e","n","t","e","r","s">>, <<"L","i","f","e">>, <<"R","a","w">>, <<"E","x","i","s","t","i","n","g">>, <<"R","e","n","e","w","a","l">>>>

\* manual_entry: the category stored for the submitted category field
ManualCategory(category) ==
    LET category_choices == {SafeStr(CategoryChoices[i]) : i \in 1..Len(CategoryChoices)}
        category_normalized == SafeStr(OrS(category, K_raw))
    IN  IF category_normalized \notin category_choices
        THEN (IF category_normalized # <<>> THEN category_normalized ELSE K_other)
        ELSE category_normalized

\* manual_entry: the producer row the submitted producer_id selects (the empty
\* sequence for none)
ManualProducer(u, producer_id) ==
    SelectSeq(Producers, LAMBDA p : producer_id # 0 /\ p.id = producer_id
                                    /\ p.org_id = Users[u].org_id)

\* manual_entry (POST): which early return is taken, or "recorded"
ManualCheck(u, form) ==
    IF GetAccessibleWorkspaces(u) = <<>> THEN "no_workspaces"
    ELSE IF form.workspace_id = 0 \/ form.workspace_id \notin GetAccessibleWorkspaceIds(u)
         THEN "no_access"
    ELSE IF ManualProducer(u, form.producer_id) # <<>>
            /\ ManualProducer(u, form.producer_id)[1].workspace_id # form.workspace_id
         THEN "producer_mismatch"
    ELSE "recorded"

K_Manual == <<"M","a","n","u","a","l">>
K_recorded == <<"r","e","c","o","r","d","e","d">>

\* manual_entry: the transaction built from the form
ManualTxn(id, u, form, carrier) ==
    LET producer == ManualProducer(u, form.producer_id)
        premium == DecimalOrNone(form.premium)
        commission == DecimalOrNone(form.commission)
        explicit_split == DecimalOrNone(form.split_pct)
        split_pct == IF explicit_split.null /\ producer # <<>>
                     THEN producer[1].default_split ELSE explicit_split
        amount == IF ~commission.null
                  THEN CalculateAmount(commission, split_pct, <<>>)
                  ELSE IF ~premium.null /\ ~split_pct.null
                       THEN DecMul(premium, DecDiv100(split_pct))
                       ELSE DNull
    IN  [id |-> id,
         row_id |-> 0,
         org_id |-> Users[u].org_id,
         batch_id |-> 0,
         workspace_id |-> form.workspace_id,
         producer_id |-> IF producer # <<>> THEN producer[1].id ELSE 0,
         premium |-> premium,
         commission |-> commission,
         split_pct |-> split_pct,
         amount |-> amount,
         category |-> ManualCategory(form.category),
         carrier_name |-> carrier.name,
         source |-> "manual",
         status |-> K_recorded,
         created_by |-> u,
         manual_amount |-> DNull,
         manual_split_pct |-> DNull,
         override_source |-> "none",
         override_applied_at |-> 0,
         override_applied_by |-> 0]

\* the committed tables after one manual entry, alone
Entered(db, u, form) ==
    LET org_id == Users[u].org_id
        carrier_name == OrS(form.carrier_name, K_Manual)
        found == CarrierMatches(db.carriers, org_id, carrier_name)
        carrier == IF found = {} THEN NewCarrier(db.ids.carrier, org_id, carrier_name)
                   ELSE CHOOSE c \in found : TRUE
    IN  IF ManualCheck(u, form) # "recorded" THEN db
        ELSE [db EXCEPT !.carriers = @ \cup {carrier},
                        !.txns = @ \cup {ManualTxn(db.ids.txn, u, form, carrier)},
                        !.ids = [@ EXCEPT !.carrier = IF found = {} THEN @ + 1 ELSE @,
                                          !.txn = @ + 1]]

\* a manual entry form of the other organisation's owner
FormOtherOrg ==
    [workspace_id |-> 3, carrier_name |-> <<>>, producer_id |-> 0,
     premium |-> <<"2","0","0","0">>, commission |-> <<"2","0","0">>,
     split_pct |-> <<"5","0">>, category |-> <<>>]

\* the manual entry form sent with every field left empty but the workspace
FormNoMoney ==
    [workspace_id |-> 2, carrier_name |-> <<>>, producer_id |-> 0, premium |-> <<>>,
     commission |-> <<>>, split_pct |-> <<>>, category |-> <<>>]

(* --------------------------- specifications ---------------------------- *)

\* statement ingestion: overlapping uploads and the carrier form, from an
\* empty database
Next ==
    \/ \E p \in Procs, u \in Org1Users, w \in {0, 1, 2}, f \in Files : UploadStart(p, u, w, f)
    \/ \E p \in Procs : UploadGroup(p)
    \/ \E p \in Procs : UploadCommit(p)
    \/ \E u \in Org1Users, name \in {AcmeUpper, <<>>} : CreateCarrier(u, name)

Spec == Init /\ [][Next]_vars

\* the committed tables after one more upload has run to completion, alone
RECURSIVE RunGroups(_, _, _)
RunGroups(s, committed, ids) ==
    IF s.groups = <<>> THEN [raised |-> FALSE, sess |-> s, ids |-> ids]
    ELSE CHOOSE r \in
            { IF step.raised THEN [raised |-> TRUE, sess |-> IdleSess, ids |-> step.ids]
              ELSE RunGroups(step.sess, committed, step.ids) :
                step \in { ImportGroup(s, ids, carrier, pick) :
                            carrier \in {CHOOSE c \in ResolveCarrier(s, committed, ids) : TRUE},
                            pick \in {CHOOSE f \in ProducerPicks(s) : TRUE} } } : TRUE

Imported(db, u, workspace_id_raw, file) ==
    CHOOSE out \in
        { [raised |-> r.raised,
           carriers |-> db.carriers \cup r.sess.carriers,
           batches |-> db.batches \cup r.sess.batches,
           importRows |-> db.importRows \cup r.sess.rows,
           txns |-> db.txns \cup r.sess.txns,
           ids |-> r.ids] :
            r \in { RunGroups(s, db.carriers, db.ids) :
                     s \in {StartSession(u, workspace_id_raw, file)} } } : TRUE

EmptyDb ==
    [raised |-> FALSE, carriers |-> {}, batches |-> {}, importRows |-> {}, txns |-> {}, ids |-> FirstIds]

\* the databases the override engine is started on: what the upload code
\* leaves after (a) agent 2 imported the zero-premium statement into workspace 1
\* and the owner the amount-only statement into workspace 2, (b) agent 2
\* imported the two-spellings statement into workspace 1, (c) agent 2 imported
\* the zero-premium statement into workspace 1 and the owner recorded a manual
\* entry with no money field in workspace 2, (d) agent 2 imported the
\* zero-premium statement into workspace 1 and the owner of organisation 2
\* recorded a manual entry in workspace 3
Seeds ==
    { Imported(db, 1, 2, FileAmountOnly) : db \in {Imported(EmptyDb, 2, 0, FileZeroPremium)} }
    \cup { Imported(EmptyDb, 2, 0, FileTwoSpellings) }
    \cup { Entered(db, 1, FormNoMoney) : db \in {Imported(EmptyDb, 2, 0, FileZeroPremium)} }
    \cup { Entered(db, 5, FormOtherOrg) : db \in {Imported(EmptyDb, 2, 0, FileZeroPremium)} }

InitEngine ==
    \E db \in Seeds :
        /\ carriers = db.carriers
        /\ batches = db.batches
        /\ importRows = db.importRows
        /\ txns = db.txns
        /\ overrides = <<>>
        /\ nextId = db.ids
        /\ sess = [p \in Procs |-> [IdleSess EXCEPT !.pc = "done"]]
        /\ now = 1
        /\ counts = [forms |-> 0, engine |-> 0]
        /\ last = NoLast
        /\ probe = NoProbe

Ten == <<"1","0">>

\* the manual-edit forms submitted
EditForms ==
    { [NoForm EXCEPT !.manual_amount = <<"7","5">>],
      [NoForm EXCEPT !.clear_manual_amount = TRUE],
      [NoForm EXCEPT !.manual_split_pct = <<"5","0">>],
      [NoForm EXCEPT !.clear_manual_split = TRUE],
      [NoForm EXCEPT !.status = <<"p","a","i","d"," ">>],
      [NoForm EXCEPT !.notes = <<" ","o","k">>],
      [NoForm EXCEPT !.notes = <<" ">>],
      [NoForm EXCEPT !.manual_amount = <<"x">>, !.clear_manual_amount = TRUE],
      [NoForm EXCEPT !.manual_amount = <<"7","5">>, !.manual_split_pct = <<"5","%">>],
      [NoForm EXCEPT !.clear_manual_amount = TRUE, !.manual_split_pct = <<"5","0">>] }

TxnIds == {x.id : x \in txns}

\* upload, run to completion with no other request in between
Upload(u, workspace_id_raw, file) ==
    LET result == UploadCheck(u, workspace_id_raw, file)
        cur == [raised |-> FALSE, carriers |-> carriers, batches |-> batches,
                importRows |-> importRows, txns |-> txns, ids |-> nextId]
    IN  /\ counts.engine < MaxEngine
        /\ counts' = [counts EXCEPT !.engine = @ + 1]
        /\ IF result = "started"
           THEN /\ \E db \in {Imported(cur, u, workspace_id_raw, file)} :
                      /\ carriers' = db.carriers
                      /\ batches' = db.batches
                      /\ importRows' = db.importRows
                      /\ txns' = db.txns
                      /\ nextId' = db.ids
                      /\ last' = [NoLast EXCEPT !.op = "upload",
                                      !.result = IF db.raised THEN "error" ELSE "imported",
                                      !.user = u, !.file = file, !.pre = Tables]
           ELSE /\ last' = [NoLast EXCEPT !.op = "upload", !.result = result,
                                !.user = u, !.file = file, !.pre = Tables]
                /\ UNCHANGED <<carriers, batches, importRows, txns, nextId>>
        /\ UNCHANGED <<overrides, sess, now, probe>>

\* the bulk override requests submitted: (user, transaction ids, mode, value)
BulkRequests ==
    {<<u, ids, mode, Ten>> : u \in DOMAIN Users, ids \in {{1}, {2}, TxnIds}, mode \in ValidModes}
    \cup { <<1, {1}, "bonus", Ten>>, <<1, {1, 2}, "flat", <<"a","b","c">> >>,
           <<2, {1}, "percent", NoneS>>, <<1, {}, "flat", Ten>>, <<1, {99}, "flat", Ten>> }

\* the manual edits submitted: (user, transaction id, form)
EditRequests ==
    {<<1, 1, form>> : form \in EditForms}
    \cup {<<2, 2, form>> : form \in {[NoForm EXCEPT !.manual_amount = <<"7","5">>],
                                   [NoForm EXCEPT !.clear_manual_amount = TRUE]}}
    \cup {<<5, id, [NoForm EXCEPT !.manual_amount = <<"7","5">>]>> : id \in {1, 2}}
    \cup {<<1, 99, NoForm>>}

NextEngine ==
    \/ \E r \in BulkRequests : ApplyCommissionOverride(r[1], r[2], r[3], r[4], NoneS)
    \/ \E r \in EditRequests : EditTransaction(r[1], r[2], r[3])
    \/ \E f \in {FileAmountOnly, FileNoCarrier, FileInterleaved} : Upload(1, 2, f)

SpecEngine == InitEngine /\ [][NextEngine]_vars

(* ---------------------- overlapping bulk overrides --------------------- *)

\* the bulk override requests that overlap: (user, transaction ids, mode, value)
RaceRequests ==
    {<<u, ids, mode, Ten>> : u \in {1, 2}, ids \in {{1}, {1, 2}}, mode \in ValidModes}
    \cup { <<1, {1}, "bonus", Ten>>, <<1, {1}, "split", <<"5","0">> >> }

\* db.session.commit(): the UPDATE of one loaded row carries the attributes the
\* request changed (new differs from what it loaded); every other column keeps
\* what is committed by then
FlushRow(cur, loaded, dirty) ==
    [f \in DOMAIN cur |-> IF dirty[f] # loaded[f] THEN dirty[f] ELSE cur[f]]

\* apply_commission_override up to the end of the loop: the rows are loaded and
\* changed in the request's own session
OverrideBegin(p, u, txn_ids, override_mode, override_value_raw) ==
    LET result == BulkCheck(u, txn_ids, override_mode, override_value_raw)
        override_value == ParseDecimal(override_value_raw).val
        transactions == SelectTransactions(u, txn_ids)
        todo == {x \in transactions : ~SkipTxn(u, x)}
        req == [user |-> u, ids |-> txn_ids, mode |-> override_mode,
                value_raw |-> override_value_raw]
    IN  /\ RequireAdmin(u)
        /\ sess[p].pc = "idle"
        /\ IF result = "applied"
           THEN /\ sess' = [sess EXCEPT ![p] =
                        [pc |-> "flush", req |-> req, loaded |-> todo,
                         dirty |-> {ApplyOverride(x, override_mode, override_value, u, now) :
                                        x \in todo},
                         rows |-> [i \in 1..Cardinality(todo) |->
                                      BulkOverrideRow(ById(todo)[i], override_mode,
                                                      override_value, u, NoneS, now)]]]
                /\ now' = now + 1
                /\ UNCHANGED last
           ELSE /\ sess' = [sess EXCEPT ![p] =
                        [pc |-> "done", req |-> req, loaded |-> {}, dirty |-> {},
                         rows |-> <<>>]]
                /\ last' = [NoLast EXCEPT !.op = "bulk", !.result = result, !.user = u,
                                !.proc = p, !.ids = txn_ids, !.mode = override_mode,
                                !.value_raw = override_value_raw, !.pre = Tables]
                /\ UNCHANGED now
        /\ UNCHANGED <<carriers, batches, importRows, txns, overrides, nextId, counts, probe>>

\* apply_commission_override: db.session.commit()
OverrideCommit(p) ==
    LET s == sess[p]
        Loaded(id) == CHOOSE x \in s.loaded : x.id = id
        Dirty(id) == CHOOSE x \in s.dirty : x.id = id
        ids == {x.id : x \in s.loaded}
    IN  /\ s.pc = "flush"
        /\ txns' = {IF x.id \in ids THEN FlushRow(x, Loaded(x.id), Dirty(x.id)) ELSE x :
                        x \in txns}
        /\ overrides' = LogAppend(overrides, s.rows)
        /\ sess' = [sess EXCEPT ![p].pc = "done"]
        /\ last' = [NoLast EXCEPT !.op = "bulk", !.result = "applied", !.user = s.req.user,
                        !.proc = p, !.ids = s.req.ids, !.applied = ids,
                        !.mode = s.req.mode, !.value_raw = s.req.value_raw, !.pre = Tables]
        /\ UNCHANGED <<carriers, batches, importRows, nextId, now, counts, probe>>

\* two bulk override requests, each served once, on a database left by uploads
InitRace ==
    \E db \in Seeds :
        /\ carriers = db.carriers
        /\ batches = db.batches
        /\ importRows = db.importRows
        /\ txns = db.txns
        /\ overrides = <<>>
        /\ nextId = db.ids
        /\ sess = [p \in Procs |-> IdleSess]
        /\ now = 1
        /\ counts = [forms |-> 0, engine |-> 0]
        /\ last = NoLast
        /\ probe = NoProbe

NextRace ==
    \/ \E p \in Procs, r \in RaceRequests : OverrideBegin(p, r[1], r[2], r[3], r[4])
    \/ \E p \in Procs : OverrideCommit(p)

SpecRace == InitRace /\ [][NextRace]_vars

(* ------------------------- row-level functions ------------------------- *)

\* the columns of the statement the probed rows come from
ProbeKeys ==
    {K_carrier, K_premium, K_Premium, K_commission, K_commission_rate, K_agent_amount,
     K_producer_amount, K_split_pct, K_producer, K_agent_email, K_category, K_Policy,
     K_Policy_Number, K_region}

\* a csv.DictReader row over ProbeKeys: the given cells, every other cell empty
RowOf(cells) ==
    [k \in ProbeKeys |-> IF k \in DOMAIN cells THEN cells[k] ELSE <<>>]

NoText == <<>>

\* rows that vary the money cells
MoneyRows ==
    { RowOf((K_carrier :> Acme) @@ (K_premium :> premium) @@ (K_Premium :> premium2)
            @@ (K_commission :> commission) @@ (K_commission_rate :> rate)
            @@ (K_agent_amount :> agent_amount) @@ (K_producer_amount :> producer_amount)
            @@ (K_split_pct :> split_pct)) :
        premium \in {NoText, <<"2","0","0","0">>, <<"x">>},
        premium2 \in {NoText, <<"5","0","0">>},
        commission \in {NoText, <<"2","0","0">>, <<"0">>},
        rate \in {NoText, <<"1","0">>, <<"0",".","1","0">>, <<"1","0","0">>, <<"1">>,
                  <<"1","5","0">>, <<"1",".","5">>, <<"n","a","n">>},
        agent_amount \in {NoText, <<"4","0">>, <<"x">>},
        producer_amount \in {NoText, <<"3","0">>},
        split_pct \in {NoText, <<"5","0">>} }

\* rows that vary the producer hints and the category
HintRows ==
    { RowOf((K_carrier :> Acme) @@ (K_premium :> <<"2","0","0","0">>) @@ (K_producer :> producer)
            @@ (K_agent_email :> agent_email) @@ (K_category :> category)) :
        producer \in {NoText, <<"B","o","b">>, <<"B","O","B">>, <<"A","n","n">>, <<"Z","e","d">>},
        agent_email \in {NoText, <<"c","@","x">>, <<"b","@","x">>},
        category \in {NoText, <<"B","o","n","u","s">>} }

\* rows that vary the cells no money is read from
DataRows ==
    { RowOf((K_carrier :> Acme) @@ (K_premium :> premium) @@ (K_Premium :> premium2)
            @@ (K_Policy :> policy) @@ (K_Policy_Number :> policy_number)
            @@ (K_region :> region)) :
        premium \in {<<"2","0","0","0">>, <<"x">>},
        premium2 \in {NoText, <<"5","0","0">>},
        policy \in {NoText, <<"P","1">>},
        policy_number \in {NoText, <<"P","2">>},
        region \in {NoText, <<"W","e","s","t">>} }

\* (user, workspace) pairs of uploads that pass find_workspace_for_upload
UploadContexts ==
    {c \in (DOMAIN Users) \X {1, 2} : FindWorkspaceForUpload(c[1], c[2]) = c[2]}

\* the calls probed: a row of an upload by a user into a workspace
RowProbes ==
    { [kind |-> "row", user |-> c[1], workspace_id |-> c[2], raw |-> raw] :
        c \in UploadContexts, raw \in HintRows }
    \cup { [kind |-> "row", user |-> c[1], workspace_id |-> c[2], raw |-> raw] :
        c \in {<<2, 1>>, <<1, 2>>}, raw \in MoneyRows }
    \cup { [kind |-> "row", user |-> 1, workspace_id |-> 1, raw |-> raw] : raw \in DataRows }

\* the import batch and the carrier a probed row is built under
ProbeBatch(u, workspace_id) ==
    [id |-> 1, org_id |-> Users[u].org_id, carrier_id |-> 1, workspace_id |-> workspace_id,
     period_month |-> FormatMonth(Today), status |-> "uploaded", created_by |-> u]

ProbeCarrier(u) == NewCarrier(1, Users[u].org_id, Acme)

\* upload, the body of the loop for one row: _normalize_row, then
\* _build_transaction with the producer _match_producer returns
BuildRow ==
    /\ probe.kind = "row"
    /\ \E producer_id \in MatchProducer(probe.raw, probe.workspace_id,
                                        GetAccessibleProducers(probe.user)) :
       \E normalized \in {NormalizeRow(probe.raw, K_carrier)} :
       \E built \in {BuildTransaction(1, [id |-> 1, batch_id |-> 1, raw |-> probe.raw,
                                          normalized |-> normalized],
                                      ProbeBatch(probe.user, probe.workspace_id),
                                      probe.workspace_id, ProbeCarrier(probe.user),
                                      producer_id, probe.user)} :
          probe' = [kind |-> "built", user |-> probe.user,
                    workspace_id |-> probe.workspace_id, raw |-> probe.raw,
                    normalized |-> normalized, producer_id |-> producer_id,
                    raised |-> built.raised, made |-> built.made, txn |-> built.txn]
    /\ UNCHANGED <<carriers, batches, importRows, txns, overrides, nextId, sess, now,
                   counts, last>>

\* the manual entry forms submitted
ManualForms ==
    { [workspace_id |-> w, carrier_name |-> carrier_name, producer_id |-> producer_id,
       premium |-> premium, commission |-> commission, split_pct |-> split_pct,
       category |-> category] :
        w \in {0, 1, 2},
        carrier_name \in {NoText, Acme},
        producer_id \in {0, 1, 2},
        premium \in {NoText, <<"2","0","0","0">>},
        commission \in {NoText, <<"2","0","0">>},
        split_pct \in {NoText, <<"5","0">>},
        category \in {NoText, <<"B","o","n","u","s">>, <<"A","u","t","o">>, <<" ">>, <<"h","o","m","e"," ">>} }

\* manual_entry (POST), the whole request; a request that returns after
\* _resolve_carrier flushed a new carrier commits nothing
ManualEntry ==
    /\ probe.kind = "form"
    /\ \E result \in {ManualCheck(probe.user, probe.form)} :
       \E carrier \in
            IF CarrierMatches(carriers, Users[probe.user].org_id,
                              OrS(probe.form.carrier_name, K_Manual)) = {}
            THEN {NewCarrier(nextId.carrier, Users[probe.user].org_id,
                             OrS(probe.form.carrier_name, K_Manual))}
            ELSE CarrierMatches(carriers, Users[probe.user].org_id,
                                OrS(probe.form.carrier_name, K_Manual)) :
          /\ probe' = [kind |-> "entered", user |-> probe.user, form |-> probe.form,
                       result |-> result]
          /\ last' = [NoLast EXCEPT !.op = "manual", !.result = result,
                          !.user = probe.user, !.pre = Tables]
          /\ IF result = "recorded"
             THEN /\ carriers' = carriers \cup {carrier}
                  /\ txns' = txns \cup {ManualTxn(nextId.txn, probe.user, probe.form, carrier)}
                  /\ nextId' = [nextId EXCEPT
                                  !.carrier = IF carrier \in carriers THEN @ ELSE @ + 1,
                                  !.txn = @ + 1]
             ELSE /\ UNCHANGED <<carriers, txns>>
                  /\ nextId' = [nextId EXCEPT
                                  !.carrier = IF result = "producer_mismatch"
                                                 /\ carrier \notin carriers
                                              THEN @ + 1 ELSE @]
    /\ UNCHANGED <<batches, importRows, overrides, sess, now, counts>>

K_effective_date == <<"e","f","f","e","c","t","i","v","e","_","d","a","t","e">>
K_written_date == <<"w","r","i","t","t","e","n","_","d","a","t","e">>

\* statements with two date-like columns and one or two rows
DatedFiles ==
    { [filename |-> CsvName,
       header |-> <<K_carrier, K_effective_date, K_written_date>>,
       rows |-> rows] :
        rows \in UNION { [1..n -> { <<Acme, effective, written>> :
                                    effective \in {NoText, <<"2","0","2","4","-","0","3","-","1","0">>, <<"2","0","2","3","1","2","3","1">>, <<"x">>},
                                    written \in {NoText, <<"0","1","/","0","5","/","2","0","2","4">>, <<"5"," ","D","e","c"," ","2","0","2","3">>, <<"x">>} }] :
                         n \in {1, 2} } }

\* upload: derived_period = _derive_period_month(rows)
DerivePeriod ==
    /\ probe.kind = "file"
    /\ probe' = [kind |-> "period", file |-> probe.file,
                 period |-> DerivePeriodMonth(probe.file, Today)]
    /\ UNCHANGED <<carriers, batches, importRows, txns, overrides, nextId, sess, now,
                   counts, last>>

\* the calls start on an empty database or on one that has a carrier
InitRow ==
    /\ carriers \in {{}, {NewCarrier(1, 1, AcmeLower)}}
    /\ batches = {}
    /\ importRows = {}
    /\ txns = {}
    /\ overrides = <<>>
    /\ nextId = [FirstIds EXCEPT !.carrier = 1 + Cardinality(carriers)]
    /\ sess = [p \in Procs |-> IdleSess]
    /\ now = 1
    /\ counts = [forms |-> 0, engine |-> 0]
    /\ last = NoLast
    /\ probe \in RowProbes
            \cup {[kind |-> "form", user |-> u, form |-> form] :
                        u \in DOMAIN Users, form \in ManualForms}
            \cup {[kind |-> "file", file |-> file] : file \in DatedFiles}

NextRow ==
    \/ BuildRow
    \/ ManualEntry
    \/ DerivePeriod

SpecRow == InitRow /\ [][NextRow]_vars

(* ------------------------------- claims -------------------------------- *)

\* the transaction with a primary key, before and after the last request
PreTxn(id) == CHOOSE x \in last.pre.txns : x.id = id
CurTxn(id) == CHOOSE x \in txns : x.id = id

\* the commission_overrides rows the last request inserted
NewOverrides == SubSeq(overrides, Len(last.pre.overrides) + 1, Len(overrides))

NewOverridesOf(id) == {i \in 1..Len(NewOverrides) : NewOverrides[i].transaction_id = id}

IsPrefix(a, b) == Len(a) <= Len(b) /\ SubSeq(b, 1, Len(a)) = a

HasCarrierColumn(header) ==
    \E i \in 1..Len(header) : Lower(Strip(header[i])) = K_carrier

ImportTablesUnchanged ==
    /\ carriers = last.pre.carriers
    /\ batches = last.pre.batches
    /\ importRows = last.pre.importRows
    /\ txns = last.pre.txns

\* C1: an upload whose header has no column that trims and lower-cases to
\* "carrier" is rejected before any write: it never enters the import loop, and
\* when it has returned the carriers, batches, import rows and transactions are
\* what they were before the call.
C1_MissingCarrierRejected ==
    /\ \A p \in Procs : sess[p].pc = "groups" => HasCarrierColumn(sess[p].file.header)
    /\ (last.op = "upload" /\ ~HasCarrierColumn(last.file.header)) =>
            (last.result # "imported" /\ ImportTablesUnchanged)

\* C1 witness: the upload without a carrier column was turned away while the
\* tables already held another upload's rows
C1_Witness ==
    /\ last.op = "upload"
    /\ last.result = "no_carrier_column"
    /\ batches # {}
    /\ txns # {}

\* C2: in one upload, rows whose carrier values differ only in letter case end
\* up in one and the same ImportBatch.
C2_CaseInsensitiveGrouping ==
    (last.op = "upload" /\ last.result = "imported") =>
        \A r1, r2 \in importRows \ last.pre.importRows :
            Lower(CarrierKey(r1.raw, CarrierField(last.file.header)))
                = Lower(CarrierKey(r2.raw, CarrierField(last.file.header)))
            => r1.batch_id = r2.batch_id

\* C3: a bulk override leaves every requested transaction whose workspace is
\* outside the caller's accessible workspace set unchanged and without a new
\* CommissionOverride record, whoever the caller is (an empty accessible set
\* included).
C3_InaccessibleUntouched ==
    last.op = "bulk" =>
        \A x \in last.pre.txns :
            (x.id \in last.ids /\ x.workspace_id \notin GetAccessibleWorkspaceIds(last.user))
            => (x \in txns /\ NewOverridesOf(x.id) = {})

FirstNonNull3(a, b, c) == IF ~a.null THEN a ELSE IF ~b.null THEN b ELSE c

NonZero(d) == ~d.null /\ d.n # 0

LastValue == ParseDecimal(last.value_raw).val

\* C4 as claimed: in percent and in split mode the base is the first non-null
\* of premium, amount, commission, and the new amount is base * value / 100.
C4_BaseFirstNonNull ==
    (last.op = "bulk" /\ last.result = "applied" /\ last.mode \in {"percent", "split"}) =>
        \A id \in last.applied :
            LET base == FirstNonNull3(PreTxn(id).premium, PreTxn(id).amount,
                                      PreTxn(id).commission)
            IN  ~base.null => CurTxn(id).amount = DecMul(base, DecDiv100(LastValue))

\* C4 amended: in percent mode the base is the first of premium, amount that is
\* neither null nor zero, else the commission; in split mode it is the first
\* non-null of commission, amount, premium.  With a non-null base the new amount
\* (and commission and manual amount) is base * value / 100; with none the
\* amount stays.
C4_BaseAsCoded ==
    (last.op = "bulk" /\ last.result = "applied" /\ last.mode \in {"percent", "split"}) =>
        \A id \in last.applied :
            LET t == PreTxn(id)
                base == IF last.mode = "percent"
                        THEN (IF NonZero(t.premium) THEN t.premium
                              ELSE IF NonZero(t.amount) THEN t.amount ELSE t.commission)
                        ELSE FirstNonNull3(t.commission, t.amount, t.premium)
            IN  IF base.null THEN CurTxn(id).amount = t.amount
                ELSE /\ CurTxn(id).amount = DecMul(base, DecDiv100(LastValue))
                     /\ CurTxn(id).commission = CurTxn(id).amount
                     /\ CurTxn(id).manual_amount = CurTxn(id).amount

\* C4 witness: a percent override met a zero premium next to an amount of 100
\* and took the amount as its base
C4_Witness ==
    /\ last.op = "bulk" /\ last.result = "applied" /\ last.mode = "percent"
    /\ \E id \in last.applied :
          /\ PreTxn(id).premium = Dec(0)
          /\ PreTxn(id).amount = Dec(100)
          /\ CurTxn(id).amount = Dec(10)

\* C5: a bulk override appends exactly one CommissionOverride record per
\* transaction it applies to, with the request's type and value; the records
\* appended are as many as the applied count, none is for a transaction that
\* was not applied, only applied transactions change, and percent 10 on
\* premium 500 with null amount and commission gives amount 50.
C5_OneRecordPerApplied ==
    last.op = "bulk" =>
        /\ Len(NewOverrides) = Cardinality(last.applied)
        /\ (last.result # "applied") => last.applied = {}
        /\ \A i \in 1..Len(NewOverrides) :
              /\ NewOverrides[i].transaction_id \in last.applied
              /\ NewOverrides[i].override_type = last.mode
              /\ NewOverrides[i].flat_amount =
                    (IF last.mode = "flat" THEN LastValue ELSE DNull)
              /\ NewOverrides[i].percent =
                    (IF last.mode = "percent" THEN LastValue ELSE DNull)
              /\ NewOverrides[i].split_pct =
                    (IF last.mode = "split" THEN LastValue ELSE DNull)
        /\ \A id \in last.applied : Cardinality(NewOverridesOf(id)) = 1
        /\ \A x \in last.pre.txns : x \notin txns => x.id \in last.applied
        /\ \A id \in last.applied :
              (/\ last.mode = "percent" /\ LastValue = Dec(10)
               /\ PreTxn(id).premium = Dec(500)
               /\ PreTxn(id).amount.null /\ PreTxn(id).commission.null)
              => CurTxn(id).amount = Dec(50)

\* C5 witness: percent 10 was applied to the premium-500 transaction, next to
\* a second applied transaction
C5_Witness ==
    /\ last.op = "bulk" /\ last.mode = "percent" /\ Cardinality(last.applied) = 2
    /\ \E id \in last.applied :
          /\ PreTxn(id).premium = Dec(500) /\ PreTxn(id).amount.null
          /\ CurTxn(id).amount = Dec(50)
          /\ \E i \in NewOverridesOf(id) : NewOverrides[i].percent = Dec(10)

\* C6 as claimed: every bulk override or manual edit that changes any field of
\* a transaction appends a CommissionOverride record for it.
C6_EveryMutationLogged ==
    last.op \in {"bulk", "edit"} =>
        \A x \in last.pre.txns : x \notin txns => NewOverridesOf(x.id) # {}

EditCarriesValue(form) ==
    \/ Truthy(form.manual_amount)
    \/ Truthy(form.manual_split_pct)
    \/ (Truthy(form.notes) /\ Strip(form.notes) # <<>>)

\* C6 amended: every bulk override that changes a transaction, and every manual
\* edit that carries a manual amount, a manual split or a note, appends a
\* CommissionOverride record for that transaction in the same operation; a
\* manual edit that carries none of them (it only clears a manual value or sets
\* the status) changes the transaction and appends nothing.
C6_MutationLoggedWhenValuePresent ==
    /\ last.op = "bulk" =>
          \A x \in last.pre.txns : x \notin txns => NewOverridesOf(x.id) # {}
    /\ (last.op = "edit" /\ last.result = "updated") =>
          \A id \in last.ids :
              IF EditCarriesValue(last.form)
              THEN Cardinality(NewOverridesOf(id)) = 1 /\ Len(NewOverrides) = 1
              ELSE PreTxn(id) # CurTxn(id) /\ NewOverrides = <<>>

\* C6 witness: a manual edit that only cleared the manual amount took the
\* override source back to none and left the log as it was
C6_Witness ==
    /\ last.op = "edit" /\ last.result = "updated"
    /\ last.form.clear_manual_amount /\ ~EditCarriesValue(last.form)
    /\ \E id \in last.ids :
          PreTxn(id).override_source = "manual_edit" /\ CurTxn(id).override_source = "none"
    /\ NewOverrides = <<>>

\* C7: a manual edit that clears the manual amount resets override_source to
\* none only if it was manual_edit before; any other source set by a bulk
\* override (manual_flat after a flat override) is still there afterwards.  No
\* manual edit takes a source other than manual_edit back to none.
C7_ClearKeepsProvenance ==
    (last.op = "edit" /\ last.result = "updated") =>
        \A id \in last.ids :
            /\ (CurTxn(id).override_source = "none" /\ PreTxn(id).override_source # "none")
                  => (PreTxn(id).override_source = "manual_edit"
                      /\ last.form.clear_manual_amount)
            /\ (/\ last.form.clear_manual_amount
                /\ ~Truthy(last.form.manual_amount)
                /\ PreTxn(id).override_source \in {"manual_flat", "manual_percent", "manual_split"})
                  => (/\ CurTxn(id).override_source = PreTxn(id).override_source
                      /\ CurTxn(id).manual_amount.null)

\* C7 witness: a flat override, then a manual edit that cleared the manual
\* amount: the source is still manual_flat
C7_Witness ==
    /\ last.op = "edit" /\ last.result = "updated" /\ last.form.clear_manual_amount
    /\ \E id \in last.ids :
          /\ PreTxn(id).override_source = "manual_flat"
          /\ ~PreTxn(id).manual_amount.null
          /\ CurTxn(id).override_source = "manual_flat"
          /\ CurTxn(id).manual_amount.null

\* C8: an invalid override request changes nothing: a bulk override whose mode
\* is not flat, percent or split, or whose value does not parse, and a manual
\* edit whose manual amount or manual split does not parse, leave every
\* transaction and the override log as they were.
C8_InvalidRequestNoChange ==
    /\ (/\ last.op = "bulk"
        /\ (last.mode \notin {"flat", "percent", "split"} \/ ~ParseDecimal(last.value_raw).ok))
          => (txns = last.pre.txns /\ overrides = last.pre.overrides)
    /\ (/\ last.op = "edit"
        /\ \/ (Truthy(last.form.manual_amount) /\ ~ParseDecimal(last.form.manual_amount).ok)
           \/ (Truthy(last.form.manual_split_pct)
               /\ ~ParseDecimal(last.form.manual_split_pct).ok))
          => (txns = last.pre.txns /\ overrides = last.pre.overrides)

\* C8 witness: a manual edit with a good amount and a bad split was turned
\* away on a transaction that exists and that the caller may edit, after an
\* earlier override had been logged
C8_Witness ==
    /\ last.op = "edit" /\ last.result = "invalid_split"
    /\ ParseDecimal(last.form.manual_amount).ok
    /\ overrides # <<>>

\* C9: the override log is append-only: whatever request completed last
\* (upload, bulk override, manual edit), the log it found is a prefix of the
\* log it left, so no record was removed or altered and no transaction's log
\* got shorter.
C9_LogAppendOnly == IsPrefix(last.pre.overrides, overrides)

\* C9 witness: a request appended to a log that already held a record
C9_Witness ==
    /\ last.pre.overrides # <<>>
    /\ Len(overrides) > Len(last.pre.overrides)

\* C10: within an organisation no two Carrier records have names that are equal
\* ignoring case, whatever uploads and carrier creations have run.
C10_CarrierNamesUnique ==
    \A c1, c2 \in carriers :
        (c1.org_id = c2.org_id /\ Lower(c1.name) = Lower(c2.name)) => c1 = c2

\* the database the overlapping overrides started on (uploads do not run there)
Origin == CHOOSE db \in Seeds : db.batches = batches

\* the transactions after one bulk override request served alone
Served(T, req) ==
    LET ok == /\ req.ids # {}
              /\ req.mode \in ValidModes
              /\ ParseDecimal(req.value_raw).ok
    IN  {IF ok /\ x.id \in req.ids /\ x.org_id = Users[req.user].org_id /\ ~SkipTxn(req.user, x)
         THEN ApplyOverride(x, req.mode, ParseDecimal(req.value_raw).val, req.user, 0)
         ELSE x : x \in T}

Money(T) == {[id |-> x.id, amount |-> x.amount, commission |-> x.commission,
              override_source |-> x.override_source] : x \in T}

\* C11: when two bulk override requests have both completed, every
\* transaction's amount, commission and override_source are what serving the
\* two requests one after the other, in one of the two orders, leaves (no lost
\* update).
C11_NoLostUpdate ==
    (\A p \in Procs : sess[p].pc = "done" /\ "req" \in DOMAIN sess[p]) =>
        \/ Money(txns) = Money(Served(Served(Origin.txns, sess[1].req), sess[2].req))
        \/ Money(txns) = Money(Served(Served(Origin.txns, sess[2].req), sess[1].req))

\* the producers _match_producer chooses among for the probed row, and the
\* row's hint values as it compares them
Candidates ==
    SelectSeq(GetAccessibleProducers(probe.user),
              LAMBDA p : p.workspace_id = probe.workspace_id)
Hints ==
    {SafeStr(probe.raw[k]) : k \in {h \in Range(HintKeys) \cap DOMAIN probe.raw :
                                        Truthy(probe.raw[h])}}
NameMatches == {p \in Range(Candidates) : SafeStr(p.display_name) \in Hints}
EmailMatches == {p \in Range(Candidates) : Truthy(p.email) /\ SafeStr(p.email) \in Hints}

\* C12: when a candidate producer's display name equals a hint of the row
\* (ignoring case), the producer chosen for the row is one matched by name,
\* never one that matches by email only, whatever the order of the visit
C12_NameMatchPreferred ==
    (probe.kind = "built" /\ NameMatches # {}) =>
        probe.producer_id \in {p.id : p \in NameMatches}

\* every producer of the probed row's workspace, accessible to the uploader or not
WorkspaceProducers == {p \in Range(Producers) : p.workspace_id = probe.workspace_id}

\* no hint of the probed row equals the name or the email of a producer
NoHintMatches ==
    \A p \in Range(Producers) :
        SafeStr(p.display_name) \notin Hints /\ SafeStr(p.email) \notin Hints

\* C13 (as stated): with no hint matching, the row's producer is the only
\* producer of the workspace when the workspace has exactly one and null when
\* it has more than one; a producer that is returned belongs to the workspace
C13_DefaultByWorkspaceRoster ==
    probe.kind = "built" =>
        /\ (NoHintMatches /\ Cardinality(WorkspaceProducers) = 1) =>
                probe.producer_id \in {p.id : p \in WorkspaceProducers}
        /\ (NoHintMatches /\ Cardinality(WorkspaceProducers) > 1) => probe.producer_id = 0
        /\ probe.producer_id # 0 =>
                probe.producer_id \in {p.id : p \in WorkspaceProducers}

\* C13 (amended): with no hint matching, the row's producer is the only
\* candidate (a producer of the workspace the uploader can access) when there
\* is exactly one candidate and null otherwise; a producer that is returned
\* belongs to the workspace
C13_DefaultByCandidates ==
    probe.kind = "built" =>
        /\ (NoHintMatches /\ Len(Candidates) = 1) => probe.producer_id = Candidates[1].id
        /\ (NoHintMatches /\ Len(Candidates) # 1) => probe.producer_id = 0
        /\ probe.producer_id # 0 =>
                probe.producer_id \in {p.id : p \in WorkspaceProducers}

\* C13: a producer-role user's row without hints got that user's own producer
\* in a workspace that has two producers
C13_Witness ==
    /\ probe.kind = "built"
    /\ NoHintMatches
    /\ Cardinality(WorkspaceProducers) = 2
    /\ Len(Candidates) = 1
    /\ probe.producer_id = Users[probe.user].producer_id

\* the explicit amount cells of the probed row that parse
ExplicitAmounts ==
    {DecimalOrNone(probe.raw[k]) :
        k \in {a \in {K_agent_amount, K_producer_amount} \cap DOMAIN probe.raw :
                    ~DecimalOrNone(probe.raw[a]).null}}

\* C14: the payable amount of an imported row is the row's explicit agent or
\* producer amount whenever either cell parses; otherwise commission x split /
\* 100 when both are known; otherwise the commission; and null when the
\* commission is unknown and there is no explicit amount
C14_PayableAmount ==
    (probe.kind = "built" /\ probe.made) =>
        IF ExplicitAmounts # {} THEN probe.txn.amount \in ExplicitAmounts
        ELSE IF probe.txn.commission.null THEN probe.txn.amount.null
        ELSE IF ~probe.txn.split_pct.null
             THEN probe.txn.amount = DecMul(probe.txn.commission, DecDiv100(probe.txn.split_pct))
        ELSE probe.txn.amount = probe.txn.commission

\* the rate cell of a row, parsed
RateOf(raw) == DecimalOrNone(OrS(Get(raw, K_commission_rate), Get(raw, K_rate)))

\* the explicit commission cells of the probed row that parse
ExplicitCommissions ==
    {ParseAmount(probe.raw[k]) :
        k \in {c \in Range(CommissionAliases) \cap DOMAIN probe.raw :
                    ~ParseAmount(probe.raw[c]).null}}
    \cup {DecimalOrNone(probe.raw[k]) :
        k \in {c \in {K_commission, K_commission_amount, K_commission_total,
                      K_agent_commission, K_split_amount} \cap DOMAIN probe.raw :
                    ~DecimalOrNone(probe.raw[c]).null}}

\* the rows that differ from the probed row in the rate cell only, where they
\* give one hundredth of its rate
Hundredths ==
    {raw \in MoneyRows :
        /\ \A k \in ProbeKeys \ {K_commission_rate} : raw[k] = probe.raw[k]
        /\ RateOf(raw) = DecDiv100(RateOf(probe.raw))}

\* the commission the code computes for a row in the place of the probed row
CommissionFor(raw) ==
    BuildTransaction(1, [id |-> 1, batch_id |-> 1, raw |-> raw,
                         normalized |-> NormalizeRow(raw, K_carrier)],
                     ProbeBatch(probe.user, probe.workspace_id), probe.workspace_id,
                     ProbeCarrier(probe.user), probe.producer_id, probe.user).txn.commission

\* a number d with d <= 100
DecLeHundred(d) == ~d.null /\ ~d.nan /\ d.n <= 100 * Pow10(d.e)

RowPremium(r) == MoneyOf(r.normalized.premium, Get(r.raw, K_premium))
RowCommission(r) ==
    IF MoneyOf(r.normalized.commission, Get(r.raw, K_commission)).null
    THEN ResolveCommissionAmount(r.raw, RowPremium(r))
    ELSE MoneyOf(r.normalized.commission, Get(r.raw, K_commission))
RowResolves(r) ==
    \/ ~RowPremium(r).null
    \/ ~RowCommission(r).null
    \/ ~CalculateAmount(RowCommission(r), DNull, r.raw).null

\* C16: an upload that reaches the import loop does not fail; each of its rows
\* whose premium, commission and amount are all unresolved gives no
\* transaction, every other row gives exactly one, with source 'import' and
\* status 'provisional'
C16_OneTransactionPerResolvableRow ==
    (last.op = "upload" /\ last.result \in {"imported", "error"}) =>
        /\ last.result = "imported"
        /\ \A r \in importRows \ last.pre.importRows :
              /\ Cardinality({x \in txns : x.row_id = r.id}) = IF RowResolves(r) THEN 1 ELSE 0
              /\ \A x \in txns : x.row_id = r.id =>
                    x.source = "import" /\ x.status = K_provisional
        /\ Cardinality(importRows \ last.pre.importRows) = Len(ReadRows(last.file))

\* the category cells of the probed row that hold a value
CategoryCells ==
    {k \in {K_category, K_commission_type, K_type, K_revenue_type, K_line_type}
            \cap DOMAIN probe.raw : Truthy(probe.raw[k])}

AllowedCategories == {SafeStr(CategoryChoices[i]) : i \in 1..Len(CategoryChoices)}

\* C18: manual entry stores 'other' for a submitted category that is not an
\* allowed choice, whereas an imported row keeps an unknown category as given,
\* lower-cased and trimmed
C18_ManualCategoryCoerced ==
    /\ (/\ probe.kind = "entered"
        /\ probe.result = "recorded"
        /\ Truthy(probe.form.category)
        /\ SafeStr(probe.form.category) \notin AllowedCategories) =>
            \A x \in txns \ last.pre.txns : x.category = K_other
    /\ (/\ probe.kind = "built"
        /\ probe.made
        /\ Truthy(probe.raw[K_category])
        /\ SafeStr(probe.raw[K_category]) \notin AllowedCategories) =>
            probe.txn.category = SafeStr(probe.raw[K_category])

\* every parseable value of a date-like column of the probed statement
AllDates ==
    {t \in {ParseAnyDate(ReadRows(probe.file)[i][k]) :
                i \in 1..Len(probe.file.rows),
                k \in {h \in Range(probe.file.header) : IsDateLike(h)}} : t.ok}

\* C19: the period of an upload is the month of the earliest date among all
\* parseable values of all date-like columns of all rows, a row's second and
\* later date-like columns included; the current date only when none parses
C19_EarliestOverAllDateColumns ==
    probe.kind = "period" =>
        probe.period =
            FormatMonth(IF AllDates # {}
                        THEN CHOOSE t \in AllDates : \A o \in AllDates : DateOrd(t) <= DateOrd(o)
                        ELSE Today)

\* the cell of column k of the probed row is kept by the normalized row: as
\* the value of a canonical field (a money field holds the parsed number) or
\* as an entry of additional_data
CellKept(k) ==
    \/ probe.raw[k] = probe.normalized.carrier
    \/ probe.raw[k] = probe.normalized.policy_number
    \/ probe.raw[k] = probe.normalized.customer
    \/ (~ParseAmount(probe.raw[k]).null /\ k \in Range(PremiumAliases)
            /\ ParseAmount(probe.raw[k]) = probe.normalized.premium)
    \/ (~ParseAmount(probe.raw[k]).null /\ k \in Range(CommissionAliases)
            /\ ParseAmount(probe.raw[k]) = probe.normalized.commission)
    \/ (k \in DOMAIN probe.normalized.additional_data
            /\ probe.normalized.additional_data[k] = probe.raw[k])

\* C20: normalizing a row drops no data: every non-empty cell of the raw row is
\* the value of a canonical field or an entry of additional_data, also when two
\* non-empty columns are aliases of one canonical field
C20_NoCellDropped ==
    probe.kind = "built" =>
        \A k \in DOMAIN probe.raw : Truthy(probe.raw[k]) => CellKept(k)

\* the rows an upload that has just completed inserted
NewBatches == batches \ last.pre.batches
NewImportRows == importRows \ last.pre.importRows
NewTxns == txns \ last.pre.txns

\* the rows of the uploaded file, as read, and its carrier column
FileRows == ReadRows(last.file)
FileCarrierField == CarrierField(last.file.header)

\* the carrier value of the rows filed under batch b
BatchKey(b) ==
    CarrierKey((CHOOSE r \in NewImportRows : r.batch_id = b.id).raw, FileCarrierField)

\* the position in the file of the first row with that carrier value
FirstAppearance(key) ==
    CHOOSE i \in 1..Len(FileRows) :
        /\ CarrierKey(FileRows[i], FileCarrierField) = key
        /\ \A j \in 1..(i - 1) : CarrierKey(FileRows[j], FileCarrierField) # key

\* the raw rows filed under batch b, in the order of their primary keys
BatchRaws(b) ==
    LET sorted == ById({r \in NewImportRows : r.batch_id = b.id})
    IN  [i \in 1..Len(sorted) |-> sorted[i].raw]

\* C21: within one upload the batches are created in the order in which their
\* carrier values first appear in the file, the import rows of a batch are
\* created in the order of the file's rows with that carrier value, and the
\* transactions of a batch in the order of the rows they come from (creation
\* order being the order of the primary keys)
C21_CreationOrder ==
    (last.op = "upload" /\ last.result = "imported") =>
        /\ \A b \in NewBatches : \E r \in NewImportRows : r.batch_id = b.id
        /\ \A b1, b2 \in NewBatches :
              (b1.id < b2.id) <=> (FirstAppearance(BatchKey(b1)) < FirstAppearance(BatchKey(b2)))
        /\ \A b \in NewBatches :
              BatchRaws(b) = SelectSeq(FileRows,
                                LAMBDA r : CarrierKey(r, FileCarrierField) = BatchKey(b))
        /\ \A t1, t2 \in NewTxns :
              t1.batch_id = t2.batch_id => ((t1.id < t2.id) <=> (t1.row_id < t2.row_id))

\* C21 witness: the statement with the rows of one carrier on either side of
\* another one's has been imported as two batches, the first with two
\* transactions
C21_Witness ==
    /\ last.op = "upload" /\ last.result = "imported"
    /\ last.file = FileInterleaved
    /\ Cardinality(NewBatches) = 2
    /\ \E b \in NewBatches : Cardinality({t \in NewTxns : t.batch_id = b.id}) = 2

\* the number of file rows, and of new import rows, that read as raw
FileCount(raw) == Cardinality({i \in 1..Len(FileRows) : FileRows[i] = raw})
ImportCount(raw) == Cardinality({r \in NewImportRows : r.raw = raw})

\* the sum of the "rows" entries of an upload summary
RECURSIVE SummaryRows(_)
SummaryRows(summary) ==
    IF summary = <<>> THEN 0 ELSE Head(summary).rows + SummaryRows(Tail(summary))

\* C22: a successful upload partitions the file's rows: each source row is one
\* new ImportRow, filed under exactly one of the upload's batches; two rows
\* share a batch exactly when their trimmed carrier values ("Unspecified" for
\* an empty one) are the same, and the batch's carrier bears that value up to
\* letter case; the summary's row counts add up to the number of source rows
\* and each entry counts at most as many transactions as rows
C22_UploadPartitionsRows ==
    (last.op = "upload" /\ last.result = "imported") =>
        /\ Cardinality(NewImportRows) = Len(FileRows)
        /\ \A i \in 1..Len(FileRows) : ImportCount(FileRows[i]) = FileCount(FileRows[i])
        /\ \A r \in NewImportRows :
              Cardinality({b \in NewBatches : b.id = r.batch_id}) = 1
        /\ \A r1, r2 \in NewImportRows :
              (r1.batch_id = r2.batch_id) <=>
                  (CarrierKey(r1.raw, FileCarrierField) = CarrierKey(r2.raw, FileCarrierField))
        /\ \A r \in NewImportRows, b \in NewBatches :
              b.id = r.batch_id =>
                  \E c \in carriers :
                      /\ c.id = b.carrier_id
                      /\ Lower(c.name) = Lower(CarrierKey(r.raw, FileCarrierField))
        /\ SummaryRows(last.summary) = Len(FileRows)
        /\ \A i \in 1..Len(last.summary) :
              /\ last.summary[i].transactions <= last.summary[i].rows
              /\ last.summary[i].rows =
                    Cardinality({r \in NewImportRows : r.batch_id = last.summary[i].batch_id})
              /\ last.summary[i].transactions =
                    Cardinality({t \in NewTxns : t.batch_id = last.summary[i].batch_id})

\* C22 witness: the statement whose two rows have an empty carrier cell has been
\* imported as one batch of carrier "Unspecified" with two rows and one
\* transaction
C22_Witness ==
    /\ last.op = "upload" /\ last.result = "imported"
    /\ last.file = FileAmountOnly
    /\ Len(last.summary) = 1
    /\ last.summary[1].carrier = K_Unspecified
    /\ last.summary[1].rows = 2
    /\ last.summary[1].transactions = 1
    /\ Cardinality(NewImportRows) = 2

\* the value a form field parses to, when it holds text that parses
ParsedField(raw) == IF Truthy(raw) /\ ParseDecimal(raw).ok THEN ParseDecimal(raw).val ELSE DNull

\* the request carries a parsed manual amount, a parsed manual split, or a note
\* that is not empty once trimmed
CarriesAmountSplitOrNote(form) ==
    \/ ~ParsedField(form.manual_amount).null
    \/ ~ParsedField(form.manual_split_pct).null
    \/ (form.notes # NoneS /\ Strip(form.notes) # <<>>)

\* C23: a manual edit that is carried out appends a CommissionOverride record,
\* of type manual_edit, for the edited transaction and holding the parsed
\* values, if and only if the request carries a parsed manual amount, a parsed
\* manual split or a note that is not empty once trimmed; an edit that only
\* clears a manual value or only changes the status appends none, and neither
\* does a request that is turned down
C23_EditLogsIffValueOrNote ==
    /\ (last.op = "edit" /\ last.result = "updated") =>
          \A id \in last.ids :
              IF CarriesAmountSplitOrNote(last.form)
              THEN /\ Len(NewOverrides) = 1
                   /\ NewOverrides[1].override_type = "manual_edit"
                   /\ NewOverrides[1].transaction_id = id
                   /\ NewOverrides[1].flat_amount = ParsedField(last.form.manual_amount)
                   /\ NewOverrides[1].split_pct = ParsedField(last.form.manual_split_pct)
              ELSE NewOverrides = <<>>
    /\ (last.op = "edit" /\ last.result # "updated") => NewOverrides = <<>>

\* C23 witness: a manual edit that carried only a note appended one manual_edit
\* record holding the trimmed note and no value
C23_Witness ==
    /\ last.op = "edit" /\ last.result = "updated"
    /\ last.form = [NoForm EXCEPT !.notes = <<" ","o","k">>]
    /\ Len(NewOverrides) = 1
    /\ NewOverrides[1].override_type = "manual_edit"
    /\ NewOverrides[1].notes = <<"o","k">>
    /\ NewOverrides[1].flat_amount.null /\ NewOverrides[1].split_pct.null

\* the CommissionOverride records of transaction id, oldest first
LogOf(id) == SelectSeq(overrides, LAMBDA o : o.transaction_id = id)

\* the override_source that goes with an override_type
SourceFor(override_type) ==
    IF override_type = "flat" THEN "manual_flat"
    ELSE IF override_type = "percent" THEN "manual_percent"
    ELSE IF override_type = "split" THEN "manual_split"
    ELSE override_type

\* C24 as claimed: after any sequence of bulk overrides and manual edits, a
\* transaction with a non-empty override log has the override_source that
\* corresponds to the override_type of its most recent CommissionOverride
\* record.
C24_SourceFollowsLatestRecord ==
    \A x \in txns :
        LogOf(x.id) # <<>> =>
            x.override_source = SourceFor(LogOf(x.id)[Len(LogOf(x.id))].override_type)

\* the fields of a transaction a bulk override is said to write
BulkWritten ==
    {"amount", "manual_amount", "manual_split_pct", "override_source",
     "override_applied_at", "override_applied_by"}

\* C25 as claimed: a bulk override changes only the amount, manual_amount,
\* manual_split_pct, override_source, override_applied_at and
\* override_applied_by of a transaction; every other field (premium, gross
\* commission, split_pct, producer, category, status among them) is the same
\* after the override as before.
C25_BulkOverrideFrame ==
    (last.op = "bulk" /\ last.result = "applied") =>
        \A id \in last.applied :
            \A f \in (DOMAIN CurTxn(id)) \ BulkWritten : CurTxn(id)[f] = PreTxn(id)[f]

\* the override states of a transaction; "none" stands for the null column
OverrideStates == {"none", "manual_flat", "manual_percent", "manual_split", "manual_edit"}

\* the transactions the last request created
CreatedTxns == {x \in txns : \A y \in last.pre.txns : y.id # x.id}

\* C26: in every reachable state each transaction's override_source is one of
\* none (null), manual_flat, manual_percent, manual_split, manual_edit; it is
\* null for a transaction that has just been imported or entered by hand, and a
\* request that takes it from null to another value is a bulk override or a
\* manual edit applied to that transaction
C26_OverrideSourceStates ==
    /\ \A x \in txns : x.override_source \in OverrideStates
    /\ \A x \in CreatedTxns : x.override_source = "none"
    /\ \A x \in txns \ CreatedTxns :
          (PreTxn(x.id).override_source = "none" /\ x.override_source # "none") =>
              (last.op \in {"bulk", "edit"} /\ x.id \in last.applied)

\* C26 witness: a transaction entered by hand has been given the source
\* manual_split by a bulk override, and an upload then created transactions
\* whose source is null
C26_Witness ==
    /\ last.op = "upload" /\ last.result = "imported"
    /\ \E x \in CreatedTxns : x.source = "import" /\ x.override_source = "none"
    /\ \E x \in txns : x.source = "manual" /\ x.override_source = "manual_split"

\* C27: after any sequence of bulk overrides and manual edits, a transaction
\* whose manual_amount is not null has its amount and its commission equal to
\* it, and a transaction whose manual_split_pct is not null has its split_pct
\* equal to it
C27_ManualValuesInForce ==
    \A x \in txns :
        /\ ~x.manual_amount.null =>
              (x.amount = x.manual_amount /\ x.commission = x.manual_amount)
        /\ ~x.manual_split_pct.null => x.split_pct = x.manual_split_pct

\* C27 witness: after a bulk override and a manual edit a transaction holds a
\* manual amount and a manual split that came from different requests
C27_Witness ==
    /\ last.op = "edit" /\ last.result = "updated"
    /\ \E id \in last.ids :
          /\ PreTxn(id).override_source \in {"manual_flat", "manual_percent"}
          /\ PreTxn(id).manual_split_pct.null
          /\ ~CurTxn(id).manual_split_pct.null
          /\ ~CurTxn(id).manual_amount.null
          /\ CurTxn(id).manual_amount = PreTxn(id).manual_amount

\* the last request was a bulk override applied to transaction id, and the
\* request served just before it applied the same override (same mode, same
\* value) to that transaction
SameOverrideTwice(id) ==
    /\ last.op = "bulk" /\ last.result = "applied" /\ id \in last.applied
    /\ Len(LogOf(id)) >= 2
    /\ LET first == LogOf(id)[Len(LogOf(id)) - 1]
           second == LogOf(id)[Len(LogOf(id))]
       IN  /\ first.override_type = second.override_type
           /\ first.flat_amount = second.flat_amount
           /\ first.percent = second.percent
           /\ first.split_pct = second.split_pct
           /\ PreTxn(id).override_applied_at = first.applied_at
           /\ second.applied_at = first.applied_at + 1

\* C28 as claimed: applying the same bulk override (same mode and same value)
\* twice in a row to a transaction leaves amount, commission and manual_amount
\* equal to their values after the first application, for each of the modes
\* flat, percent and split and for every combination of null and non-null
\* premium, amount and commission.
C28_BulkOverrideIdempotent ==
    \A id \in TxnIds :
        SameOverrideTwice(id) =>
            /\ CurTxn(id).amount = PreTxn(id).amount
            /\ CurTxn(id).commission = PreTxn(id).commission
            /\ CurTxn(id).manual_amount = PreTxn(id).manual_amount

\* no base can be found for the transaction: premium, amount and commission
\* are all null
NoBase(txn) == txn.premium.null /\ txn.amount.null /\ txn.commission.null

\* the last request was a well-formed bulk percent or split override that named
\* transaction id, of the caller's organisation and not withheld from the caller
PercentOrSplitRequested(id) ==
    /\ last.op = "bulk" /\ last.mode \in {"percent", "split"}
    /\ ParseDecimal(last.value_raw).ok
    /\ id \in last.ids
    /\ \E x \in last.pre.txns :
          x.id = id /\ x.org_id = Users[last.user].org_id /\ ~SkipTxn(last.user, x)

\* C29: a bulk percent or split override applied to a transaction with no base
\* (premium, amount and commission all null) leaves amount, commission and
\* manual_amount unchanged, yet sets override_source to the mode, stamps
\* override_applied_at/by, appends one CommissionOverride record holding the
\* mode and the value, and counts the transaction as applied
C29_NoBaseStillApplied ==
    \A id \in TxnIds :
        (PercentOrSplitRequested(id) /\ NoBase(PreTxn(id))) =>
            /\ last.result = "applied" /\ id \in last.applied
            /\ CurTxn(id).amount = PreTxn(id).amount
            /\ CurTxn(id).commission = PreTxn(id).commission
            /\ CurTxn(id).manual_amount = PreTxn(id).manual_amount
            /\ CurTxn(id).override_source = SourceFor(last.mode)
            /\ CurTxn(id).override_applied_by = last.user
            /\ CurTxn(id).override_applied_at > PreTxn(id).override_applied_at
            /\ Cardinality(NewOverridesOf(id)) = 1
            /\ \A i \in NewOverridesOf(id) :
                  /\ NewOverrides[i].override_type = last.mode
                  /\ NewOverrides[i].applied_at = CurTxn(id).override_applied_at
                  /\ (IF last.mode = "percent" THEN NewOverrides[i].percent
                      ELSE NewOverrides[i].split_pct) = ParseDecimal(last.value_raw).val

\* C29 witness: a bulk split override was applied to the transaction entered by
\* hand with no money field; its amounts are still null, its source is
\* manual_split and one record was appended
C29_Witness ==
    /\ last.op = "bulk" /\ last.result = "applied" /\ last.mode = "split"
    /\ \E id \in last.applied :
          /\ NoBase(PreTxn(id))
          /\ NoBase(CurTxn(id)) /\ CurTxn(id).manual_amount.null
          /\ CurTxn(id).override_source = "manual_split"
          /\ Cardinality(NewOverridesOf(id)) = 1

\* the transactions, as they were before the last request, of organisations
\* other than the caller's
ForeignTxns == {x \in last.pre.txns : x.org_id # Users[last.user].org_id}

\* C30: a bulk override or a manual edit issued by a user of one organisation
\* never changes a CommissionTransaction of another organisation and never
\* appends a CommissionOverride record to one, whatever transaction ids the
\* request names; the records it appends carry the caller's organisation
C30_OrganisationIsolation ==
    last.op \in {"bulk", "edit"} =>
        /\ \A x \in ForeignTxns : x \in txns /\ NewOverridesOf(x.id) = {}
        /\ \A id \in last.applied : PreTxn(id).org_id = Users[last.user].org_id
        /\ \A i \in 1..Len(NewOverrides) : NewOverrides[i].org_id = Users[last.user].org_id

\* C30 witness: a bulk override that named a transaction of each organisation
\* was applied to the caller's own one only
C30_Witness ==
    /\ last.op = "bulk" /\ last.result = "applied"
    /\ \E x \in ForeignTxns : x.id \in last.ids /\ x \in txns
    /\ last.applied # {}
    /\ last.applied # last.ids
====
